---------------------------- MODULE Spec2Model ----------------------------
(***************************************************************************)
(* Layout engine of the variance chart visual (layoutEngine.ts): the       *)
(* single-chart layout (calculateLayout, getChartArea), its position       *)
(* helpers (getCommentBoxPosition, getSmallMultiplesViewport) and the      *)
(* small multiples grid (calculateSmallMultiplesGrid,                      *)
(* calculateCellLayout); and the variance model (dataParser.ts:            *)
(* parseDataView, calculatePercentage, applyTopN) with the readers of the  *)
(* variance in the renderers and the tooltip.                              *)
(*                                                                         *)
(* Numbers.  Viewport sizes, font sizes, label widths and spacings are     *)
(* whole pixels.  The only non-integers the code produces are heights that *)
(* contain Math.sin of the label rotation; every vertical margin and chart *)
(* height is therefore kept in fixed point, in units of 1/SinDen pixel     *)
(* (Fx(30) is 30px).  Horizontal quantities and the layout rectangles are  *)
(* whole pixels.  Math.floor(a * (b / c)) is modelled by the exact floor   *)
(* of a*b/c; x * 0.4 and x * 0.15 by x*4/10 and x*15/100 (for integer x    *)
(* the double product floors to the same integer).                         *)
(***************************************************************************)
EXTENDS Integers, Sequences, FiniteSets, TLC

VARIABLES
    pc,           \* which call has been made last ("input": none yet)
    width,        \* calculateLayout: viewport width (px)
    height,       \* calculateLayout: viewport height (px)
    config,       \* calculateLayout: LayoutConfig
    dims,         \* calculateLayout: the LayoutDimensions returned
    vp,           \* the Rect returned by getSmallMultiplesViewport
    commentPos,   \* what getCommentBoxPosition returned: {} for null, else {position}
    totalWidth,   \* small multiples: viewport width (px)
    totalHeight,  \* small multiples: viewport height (px)
    groupCount,   \* small multiples: number of groups
    smConfig,     \* small multiples: SmallMultiplesConfig
    grid,         \* the SmallMultiplesGrid returned
    cellIndex,    \* the index calculateCellLayout was last called with
    cell,         \* the SmallMultiplesCellLayout returned
    dataView,     \* parseDataView: the columns of the categorical data view
    parsedData,   \* what parseDataView returned: {} for null, else {ParsedData}
    topNOptions,  \* applyTopN: the TopNOptions
    topNData,     \* the ParsedData returned by applyTopN
    settings,     \* the chart settings read when a variance is displayed
    pointIndex,   \* index of the data point whose variance was displayed
    shown,        \* the variance values the renderers and the tooltip display
    visual,       \* the Visual: its fields, the chart container, its click handlers
    powerbi,      \* the host: the signals of the last update, selection and filter
    lastUpdate,   \* the path the last update took and what it handed on
    updateOptions, \* the VisualUpdateOptions of the last update
    event         \* the last click

vars == <<pc, width, height, config, dims, vp, commentPos,
          totalWidth, totalHeight, groupCount, smConfig, grid, cellIndex, cell,
          dataView, parsedData, topNOptions, topNData, settings, pointIndex, shown,
          visual, powerbi, lastUpdate, updateOptions, event>>

layoutVars == <<width, height, config, dims, vp, commentPos>>
gridVars == <<totalWidth, totalHeight, groupCount, smConfig, grid, cellIndex, cell>>
dataVars == <<dataView, parsedData, topNOptions, topNData, settings, pointIndex, shown>>
visualVars == <<visual, powerbi, lastUpdate, updateOptions, event>>

----------------------------------------------------------------------------
(* Bounds of the model *)

MaxWidthSteps == 4
MaxHeightSteps == 4
MaxGridSteps == 3
MaxGroups == 5
MaxColumns == 3
MaxRows == 3

(* The inputs drawn *)

\* 0, 50: no room for the 50px minimum; 140: 90px of axis margins fit exactly;
\* 300: the smallest viewport of the tests
Widths == {0, 50, 140, 300} \cup {200 * i : i \in 1..MaxWidthSteps}
\* 0, 30: no room for the 30px minimum
Heights == {0, 30} \cup {100 * i : i \in 1..MaxHeightSteps}
Booleans == {TRUE, FALSE}
LegendPositions == {"top", "bottom", "left", "right"}
Rotations == {0, -45, 90}
LabelWidths == {100, 200}
FontSizes == {10, 16}
ChartTypes == {"variance", "waterfall", "lollipop"}
Breakpoints == {"small", "medium", "large"}

LayoutConfigs ==
    [title : [show : Booleans],
     legend : [show : Booleans, position : LegendPositions],
     commentBox : [show : Booleans],
     categories : [show : Booleans, rotation : Rotations,
                   maxWidth : LabelWidths, fontSize : FontSizes],
     hasComments : Booleans,
     chartType : ChartTypes,
     breakpoint : Breakpoints]

----------------------------------------------------------------------------
(* Arithmetic *)

Min(a, b) == IF a < b THEN a ELSE b
Max(a, b) == IF a > b THEN a ELSE b
Abs(a) == IF a < 0 THEN -a ELSE a

\* Math.sin(rot * Math.PI / 180) = SinNum(rot) / SinDen, for rot in {0, 45, 90}
SinDen == 10000
SinNum(rot) == CASE rot = 0 -> 0
                 [] rot = 45 -> 7071
                 [] rot = 90 -> SinDen

\* n pixels in fixed point
Fx(n) == n * SinDen

----------------------------------------------------------------------------
(* calculateLayout *)

TitleHeight == 30
LegendBarSize == 30
LegendSideSize == 80
CommentBoxWidth == 220
MinChartWidth == 50
MinChartHeight == 30
CommentBoxGap == 10
CommentBoxPadding == 30
MinCommentBoxWidth == 80

MkRect(x, y, w, h) == [x |-> x, y |-> y, width |-> w, height |-> h]

\* An optional area is the empty set (undefined) or the set of its one Rect.
NoArea == {}

SmallMargins == [top |-> Fx(5), right |-> 15, bottom |-> Fx(25), left |-> 35]

\* 1. Title (top): the available rect after the title strip
AfterTitle(w, h, cfg) ==
    IF cfg.title.show
    THEN MkRect(0, TitleHeight, w, h - TitleHeight)
    ELSE MkRect(0, 0, w, h)

titleArea(w, h, cfg) ==
    IF cfg.title.show THEN {MkRect(0, 0, w, TitleHeight)} ELSE NoArea

legendSize(position) ==
    IF position = "top" \/ position = "bottom" THEN LegendBarSize ELSE LegendSideSize

\* Mutant: a right legend carved like a left one
AfterLegend_RightAsLeft(av, cfg) ==
    LET position == cfg.legend.position
        size == legendSize(position)
    IN  IF ~cfg.legend.show THEN av
        ELSE CASE position = "top" ->
                    [av EXCEPT !.y = @ + size, !.height = @ - size]
               [] position = "bottom" ->
                    [av EXCEPT !.height = @ - size]
               [] OTHER ->
                    [av EXCEPT !.x = @ + size, !.width = @ - size]

\* 2. Legend: the available rect after the legend strip
AfterLegend(av, cfg) ==
    LET position == cfg.legend.position
        size == legendSize(position)
    IN  IF ~cfg.legend.show THEN av
        ELSE CASE position = "top" ->
                    [av EXCEPT !.y = @ + size, !.height = @ - size]
               [] position = "bottom" ->
                    [av EXCEPT !.height = @ - size]
               [] position = "left" ->
                    [av EXCEPT !.x = @ + size, !.width = @ - size]
               [] OTHER ->
                    [av EXCEPT !.width = @ - size]

legendArea(av, cfg) ==
    LET position == cfg.legend.position
        size == legendSize(position)
    IN  IF ~cfg.legend.show THEN NoArea
        ELSE CASE position = "top" ->
                    {MkRect(av.x, av.y, av.width, size)}
               [] position = "bottom" ->
                    {MkRect(av.x, av.y + av.height - size, av.width, size)}
               [] position = "left" ->
                    {MkRect(av.x, av.y, size, av.height)}
               [] OTHER ->
                    {MkRect(av.x + av.width - size, av.y, size, av.height)}

\* 3. Comment box, always carved from the right
commentBoxShown(cfg) == cfg.commentBox.show /\ cfg.hasComments

AfterCommentBox(av, cfg) ==
    IF commentBoxShown(cfg)
    THEN [av EXCEPT !.width = @ - CommentBoxWidth]
    ELSE av

\* Mutant: the comment box recorded whenever it is enabled, comments or not
commentBoxArea_IgnoresHasComments(av, cfg) ==
    IF cfg.commentBox.show
    THEN {MkRect(av.x + av.width - CommentBoxWidth, av.y, CommentBoxWidth, av.height)}
    ELSE NoArea

commentBoxArea(av, cfg) ==
    IF commentBoxShown(cfg)
    THEN {MkRect(av.x + av.width - CommentBoxWidth, av.y, CommentBoxWidth, av.height)}
    ELSE NoArea

\* The rect left to the chart once title, legend and comment box are carved
Available(w, h, cfg) ==
    AfterCommentBox(AfterLegend(AfterTitle(w, h, cfg), cfg), cfg)

\* Mutant: no extra room under a waterfall chart
axisBottom_NoWaterfall(cfg) ==
    LET rot == Abs(cfg.categories.rotation)
    IN  IF ~cfg.categories.show THEN Fx(60)
        ELSE IF rot = 0 THEN Fx(30 + cfg.categories.fontSize * 2)
        ELSE Fx(30) + Min(cfg.categories.maxWidth, 150) * SinNum(rot) + Fx(10)

\* 4. Axis margins; top and bottom in fixed point
axisBottom(cfg) ==
    LET rot == Abs(cfg.categories.rotation)
        labels ==
            IF ~cfg.categories.show THEN Fx(60)
            ELSE IF rot = 0 THEN Fx(30 + cfg.categories.fontSize * 2)
            ELSE Fx(30) + Min(cfg.categories.maxWidth, 150) * SinNum(rot) + Fx(10)
    IN  IF cfg.chartType = "waterfall" THEN labels + Fx(20) ELSE labels

\* Mutant: the medium breakpoint applied after the lollipop override
axisLeft_MediumWins(cfg) ==
    IF cfg.breakpoint = "medium" THEN 50
    ELSE IF cfg.chartType = "lollipop" THEN 100 ELSE 60

axisLeft(cfg) ==
    IF cfg.chartType = "lollipop" THEN 100
    ELSE IF cfg.breakpoint = "medium" THEN 50 ELSE 60

axisMargins(cfg) ==
    IF cfg.breakpoint = "medium"
    THEN [top |-> Fx(20), right |-> 30,
          bottom |-> Min(axisBottom(cfg), Fx(60)), left |-> axisLeft(cfg)]
    ELSE [top |-> Fx(30), right |-> 30,
          bottom |-> axisBottom(cfg), left |-> axisLeft(cfg)]

\* Final margins = peripheral offset + axis margins
finalMargins(w, h, cfg) ==
    LET av == Available(w, h, cfg)
        ax == axisMargins(cfg)
    IN  [top |-> Fx(av.y) + ax.top,
         left |-> av.x + ax.left,
         right |-> (w - (av.x + av.width)) + ax.right,
         bottom |-> Fx(h - (av.y + av.height)) + ax.bottom]

\* Mutant: the horizontal clamp left out
clampHorizontal_NoClamp(m, w) == m

\* Clamp: scale left and right down to a sum of at most width - 50
clampHorizontal(m, w) ==
    LET maxHorizontalMargin == w - MinChartWidth
        sum == m.left + m.right
    IN  IF sum > maxHorizontalMargin
        THEN [m EXCEPT !.left = (m.left * maxHorizontalMargin) \div sum,
                       !.right = (m.right * maxHorizontalMargin) \div sum]
        ELSE m

\* Mutant: the scaled margins rounded up instead of down
clampVertical_Ceil(m, h) ==
    LET maxVerticalMargin == h - MinChartHeight
        sum == m.top + m.bottom
    IN  IF sum > Fx(maxVerticalMargin)
        THEN [m EXCEPT !.top = Fx(-((-(m.top * maxVerticalMargin)) \div sum)),
                       !.bottom = Fx(-((-(m.bottom * maxVerticalMargin)) \div sum))]
        ELSE m

\* Clamp: scale top and bottom down to a sum of at most height - 30
clampVertical(m, h) ==
    LET maxVerticalMargin == h - MinChartHeight
        sum == m.top + m.bottom
    IN  IF sum > Fx(maxVerticalMargin)
        THEN [m EXCEPT !.top = Fx((m.top * maxVerticalMargin) \div sum),
                       !.bottom = Fx((m.bottom * maxVerticalMargin) \div sum)]
        ELSE m

\* Mutant: the small breakpoint handled like the others
calculateLayout_NoSmall(w, h, cfg) ==
    LET afterTitle == AfterTitle(w, h, cfg)
        afterLegend == AfterLegend(afterTitle, cfg)
    IN  [width |-> w, height |-> h,
         margin |-> clampVertical(clampHorizontal(finalMargins(w, h, cfg), w), h),
         layout |-> [titleArea |-> titleArea(w, h, cfg),
                     legendArea |-> legendArea(afterTitle, cfg),
                     commentBoxArea |-> commentBoxArea(afterLegend, cfg),
                     chartArea |-> Available(w, h, cfg)]]

calculateLayout(w, h, cfg) ==
    IF cfg.breakpoint = "small"
    THEN [width |-> w, height |-> h, margin |-> SmallMargins,
          layout |-> [titleArea |-> NoArea, legendArea |-> NoArea,
                      commentBoxArea |-> NoArea,
                      chartArea |-> MkRect(0, 0, w, h)]]
    ELSE LET afterTitle == AfterTitle(w, h, cfg)
             afterLegend == AfterLegend(afterTitle, cfg)
         IN  [width |-> w, height |-> h,
              margin |-> clampVertical(clampHorizontal(finalMargins(w, h, cfg), w), h),
              layout |-> [titleArea |-> titleArea(w, h, cfg),
                          legendArea |-> legendArea(afterTitle, cfg),
                          commentBoxArea |-> commentBoxArea(afterLegend, cfg),
                          chartArea |-> Available(w, h, cfg)]]

\* Mutant: the chart size taken from the carved chartArea, axis margins forgotten
getChartArea_FromChartArea(d) ==
    [chartWidth |-> d.layout.chartArea.width,
     chartHeight |-> Fx(d.layout.chartArea.height)]

\* chartHeight is in fixed point
getChartArea(d) ==
    [chartWidth |-> d.width - d.margin.left - d.margin.right,
     chartHeight |-> Fx(d.height) - d.margin.top - d.margin.bottom]

\* The result is a set: {} stands for null, {p} for the position p.
\* boxHeight is in fixed point.
getCommentBoxPosition(d) ==
    LET commentAllocation ==
            IF d.layout.commentBoxArea # NoArea
            THEN (CHOOSE r \in d.layout.commentBoxArea : TRUE).width
            ELSE CommentBoxWidth
    IN  {[x |-> getChartArea(d).chartWidth + CommentBoxGap,
          y |-> 0,
          boxWidth |-> Max(MinCommentBoxWidth, commentAllocation - CommentBoxPadding),
          boxHeight |-> getChartArea(d).chartHeight]}

----------------------------------------------------------------------------
(* getSmallMultiplesViewport: the viewport left for the grid, translated   *)
(* statement by statement from its own body.                               *)

viewportAfterTitle(tw, th, cfg) ==
    IF cfg.title.show
    THEN MkRect(0, 0 + TitleHeight, tw, th - TitleHeight)
    ELSE MkRect(0, 0, tw, th)

viewportAfterLegend(av, cfg) ==
    LET position == cfg.legend.position
        size == IF position = "top" \/ position = "bottom"
                THEN LegendBarSize ELSE LegendSideSize
    IN  IF ~cfg.legend.show THEN av
        ELSE CASE position = "top" -> [av EXCEPT !.y = @ + size, !.height = @ - size]
               [] position = "bottom" -> [av EXCEPT !.height = @ - size]
               [] position = "left" -> [av EXCEPT !.x = @ + size, !.width = @ - size]
               [] OTHER -> [av EXCEPT !.width = @ - size]

\* Mutant: the comment box carved whenever it is shown, with or without comments
viewportAfterCommentBox_IgnoresHasComments(av, cfg) ==
    IF cfg.commentBox.show
    THEN [av EXCEPT !.width = @ - CommentBoxWidth]
    ELSE av

viewportAfterCommentBox(av, cfg) ==
    IF cfg.commentBox.show /\ cfg.hasComments
    THEN [av EXCEPT !.width = @ - CommentBoxWidth]
    ELSE av

getSmallMultiplesViewport(tw, th, cfg) ==
    viewportAfterCommentBox(viewportAfterLegend(viewportAfterTitle(tw, th, cfg), cfg), cfg)

----------------------------------------------------------------------------
(* Small multiples: calculateSmallMultiplesGrid and calculateCellLayout *)

SafetyBuffer == 10
HeaderHeight == 20
CellTopMargin == 10
MaxSidePad == 45
AutoCellWidth == 250

\* Math.ceil(a / b) for b > 0
CeilDiv(a, b) == -((-a) \div b)

\* A JavaScript quotient a / b of two integers is NaN for 0 / 0, plus or
\* minus Infinity for a / 0 with a # 0, and finite otherwise.  A grid keeps
\* the names of its fields that are NaN in .nan and of those that are
\* infinite in .infinite; such a field holds 0 in the record.
QuotientIsNaN(a, b) == b = 0 /\ a = 0
QuotientIsInfinite(a, b) == b = 0 /\ a # 0
FloorQuotient(a, b) == IF b = 0 THEN 0 ELSE a \div b
\* Mutant: the quotient rounded down
CeilQuotient_Floor(a, b) == IF b = 0 THEN 0 ELSE a \div b
CeilQuotient(a, b) == IF b = 0 THEN 0 ELSE CeilDiv(a, b)

gridCols(tw, gc, cfg) ==
    IF cfg.columns <= 0
    THEN Min(gc, Max(1, tw \div AutoCellWidth))
    ELSE cfg.columns

\* The grid record of cols, rows = ceil(gc / cols) and the two quotients
\* widthNumerator / cols and heightNumerator / rows.  When rows is NaN or
\* infinite (cols = 0), cellHeight is NaN: (h - s * (rows + 1)) / rows is
\* NaN / NaN, -Infinity / Infinity or, for s = 0, (0 * Infinity) / Infinity.
gridOf(cols, rows, gc, widthNumerator, heightNumerator) ==
    LET rowsFinite == cols # 0
    IN  [cols |-> cols,
         rows |-> rows,
         cellWidth |-> FloorQuotient(widthNumerator, cols),
         cellHeight |-> IF rowsFinite THEN FloorQuotient(heightNumerator, rows) ELSE 0,
         nan |-> {f \in {"rows"} : QuotientIsNaN(gc, cols)}
                 \cup {f \in {"cellWidth"} : QuotientIsNaN(widthNumerator, cols)}
                 \cup {f \in {"cellHeight"} :
                           ~rowsFinite \/ QuotientIsNaN(heightNumerator, rows)},
         infinite |-> {f \in {"rows"} : QuotientIsInfinite(gc, cols)}
                      \cup {f \in {"cellWidth"} : QuotientIsInfinite(widthNumerator, cols)}
                      \cup {f \in {"cellHeight"} :
                                rowsFinite /\ QuotientIsInfinite(heightNumerator, rows)}]

\* Mutant: only the gutters between the cells counted, not the two outer ones
calculateSmallMultiplesGrid_InnerSpacing(tw, th, gc, cfg) ==
    LET cols == gridCols(tw, gc, cfg)
        rows == CeilQuotient(gc, cols)
    IN  gridOf(cols, rows, gc,
               tw - SafetyBuffer - cfg.spacing * (cols - 1),
               th - cfg.spacing * (rows - 1))

calculateSmallMultiplesGrid(tw, th, gc, cfg) ==
    LET cols == gridCols(tw, gc, cfg)
        rows == CeilQuotient(gc, cols)
    IN  gridOf(cols, rows, gc,
               tw - SafetyBuffer - cfg.spacing * (cols + 1),
               th - cfg.spacing * (rows + 1))

\* Bottom margin asked for by the category labels, in fixed point
cellLabelMargin(cfg) ==
    LET rot == Abs(cfg.categoryRotation)
    IN  IF rot = 0 THEN Fx(20 + cfg.categoryFontSize)
        ELSE Fx(15) + Min(cfg.categoryMaxWidth, 100) * SinNum(rot)

\* Mutant: the cap at half of the available height
maxBottomMargin_Half(availHeight) == (availHeight * 5) \div 10

\* Math.floor(availHeight * 0.4), in pixels
maxBottomMargin(availHeight) == (availHeight * 4) \div 10

\* Mutant: the label margin not capped by the cell height
cellBottomMargin_NoCap(availHeight, cfg) == cellLabelMargin(cfg)

cellBottomMargin(availHeight, cfg) ==
    Min(cellLabelMargin(cfg), Fx(maxBottomMargin(availHeight)))

\* Math.min(45, Math.floor(cellWidth * 0.15))
sidePad(cellWidth) == Min(MaxSidePad, (cellWidth * 15) \div 100)

\* Mutant: chartHeight taken from the cell height, the header not deducted
calculateCellLayout_HeaderForgotten(g, i, cfg) ==
    LET col == i % g.cols
        row == i \div g.cols
        headerHeight == IF cfg.showHeaders THEN HeaderHeight ELSE 0
        availHeight == g.cellHeight - headerHeight
        margin == [top |-> Fx(CellTopMargin),
                   right |-> sidePad(g.cellWidth),
                   bottom |-> cellBottomMargin(availHeight, cfg),
                   left |-> sidePad(g.cellWidth)]
    IN  [x |-> cfg.spacing + col * (g.cellWidth + cfg.spacing),
         y |-> cfg.spacing + row * (g.cellHeight + cfg.spacing),
         margin |-> margin,
         headerHeight |-> headerHeight,
         chartWidth |-> g.cellWidth - margin.left - margin.right,
         chartHeight |-> Fx(g.cellHeight) - margin.top - margin.bottom]

\* margin.top, margin.bottom and chartHeight are in fixed point
calculateCellLayout(g, i, cfg) ==
    LET col == i % g.cols
        row == i \div g.cols
        headerHeight == IF cfg.showHeaders THEN HeaderHeight ELSE 0
        availHeight == g.cellHeight - headerHeight
        margin == [top |-> Fx(CellTopMargin),
                   right |-> sidePad(g.cellWidth),
                   bottom |-> cellBottomMargin(availHeight, cfg),
                   left |-> sidePad(g.cellWidth)]
    IN  [x |-> cfg.spacing + col * (g.cellWidth + cfg.spacing),
         y |-> cfg.spacing + row * (g.cellHeight + cfg.spacing),
         margin |-> margin,
         headerHeight |-> headerHeight,
         chartWidth |-> g.cellWidth - margin.left - margin.right,
         chartHeight |-> Fx(availHeight) - margin.top - margin.bottom]

----------------------------------------------------------------------------
(* Variance model (dataParser.ts): parseDataView, calculatePercentage.     *)
(*                                                                         *)
(* A raw cell of the data view is a set: {} for null, {v} for the value v. *)
(* A column is the sequence of its cells; a column that is not bound is    *)
(* the empty array the code starts from.  Values are integers.  A          *)
(* percentage is the exact quotient num / den with den > 0.                *)

Null == {}
ComparisonTypes == {"budget", "previousYear", "forecast"}

\* Number(cell) || 0
ToNumber(raw) == IF raw = Null THEN 0 ELSE CHOOSE v \in raw : TRUE

\* String(cell || "")
ToText(raw) == IF raw = Null THEN "" ELSE CHOOSE v \in raw : TRUE

\* Cell i (from 0) of a column, undefined (null) beyond its end
CellAt(column, i) == IF i + 1 \in DOMAIN column THEN column[i + 1] ELSE Null

Rational(num, den) == [num |-> num, den |-> den]
Zero == Rational(0, 1)
Negated(q) == Rational(-q.num, q.den)
SameRational(p, q) == p.num * q.den = q.num * p.den
Sign(n) == IF n > 0 THEN 1 ELSE IF n < 0 THEN -1 ELSE 0

\* Mutant: divided by the base itself, not by its absolute value
calculatePercentage_SignedBase(variance, base) ==
    IF base = 0 THEN Zero
    ELSE IF base < 0 THEN Rational(-(variance * 100), -base)
    ELSE Rational(variance * 100, base)

\* (variance / Math.abs(base)) * 100
calculatePercentage(variance, base) ==
    IF base = 0 THEN Zero
    ELSE Rational(variance * 100, Abs(base))

\* The DataPoint of the given values, its variance fields derived
\* (parseDataView's loop body; index counts from 0)
MkDataPoint(category, actual, budget, previousYear, forecast, comment, index) ==
    [category |-> category,
     actual |-> actual,
     budget |-> budget,
     previousYear |-> previousYear,
     forecast |-> forecast,
     comment |-> comment,
     varianceToBudget |-> actual - budget,
     varianceToBudgetPct |-> calculatePercentage(actual - budget, budget),
     varianceToPY |-> actual - previousYear,
     varianceToPYPct |-> calculatePercentage(actual - previousYear, previousYear),
     varianceToFC |-> actual - forecast,
     varianceToFCPct |-> calculatePercentage(actual - forecast, forecast),
     index |-> index]

RECURSIVE SumOf(_, _)
\* dataPoints.reduce((s, d) => s + d[field], 0)
SumOf(points, field) ==
    IF points = <<>> THEN 0
    ELSE points[1][field] + SumOf(Tail(points), field)

\* The result is a set: {} stands for null, {d} for the ParsedData d.
\* groups, tooltipFields, maxValue and minValue are left out.
parseDataView(dv) ==
    LET hasActual == Len(dv.actual) > 0
        hasBudget == Len(dv.budget) > 0
        hasPreviousYear == Len(dv.previousYear) > 0
        hasForecast == Len(dv.forecast) > 0
        hasComments == Len(dv.comments) > 0
        dataPoints ==
            [k \in 1..Len(dv.category) |->
                MkDataPoint(
                    dv.category[k],
                    ToNumber(CellAt(dv.actual, k - 1)),
                    IF hasBudget THEN ToNumber(CellAt(dv.budget, k - 1)) ELSE 0,
                    IF hasPreviousYear THEN ToNumber(CellAt(dv.previousYear, k - 1)) ELSE 0,
                    IF hasForecast THEN ToNumber(CellAt(dv.forecast, k - 1)) ELSE 0,
                    IF hasComments THEN ToText(CellAt(dv.comments, k - 1)) ELSE "",
                    k - 1)]
    IN  IF ~hasActual THEN {}
        ELSE {[dataPoints |-> dataPoints,
               hasActual |-> hasActual,
               hasBudget |-> hasBudget,
               hasPreviousYear |-> hasPreviousYear,
               hasForecast |-> hasForecast,
               hasComments |-> hasComments,
               totals |-> [actual |-> SumOf(dataPoints, "actual"),
                           budget |-> SumOf(dataPoints, "budget"),
                           previousYear |-> SumOf(dataPoints, "previousYear"),
                           forecast |-> SumOf(dataPoints, "forecast")]]}

getVariance(d, comparisonType) ==
    CASE comparisonType = "budget" -> d.varianceToBudget
      [] comparisonType = "previousYear" -> d.varianceToPY
      [] comparisonType = "forecast" -> d.varianceToFC
      [] OTHER -> d.varianceToBudget

getVariancePct(d, comparisonType) ==
    CASE comparisonType = "budget" -> d.varianceToBudgetPct
      [] comparisonType = "previousYear" -> d.varianceToPYPct
      [] comparisonType = "forecast" -> d.varianceToFCPct
      [] OTHER -> d.varianceToBudgetPct

----------------------------------------------------------------------------
(* Top N + Others (applyTopN) *)

\* The category names of the model in the order localeCompare gives them
CategoryNames == <<"A", "B", "C", "D">>
LocaleRank(name) == CHOOSE k \in DOMAIN CategoryNames : CategoryNames[k] = name
localeCompare(a, b) == Sign(LocaleRank(a) - LocaleRank(b))

\* Mutant: the sort direction ignored, always ascending
compareForTopN_AlwaysAscending(a, b, options) ==
    IF options.sortBy = "name"
    THEN localeCompare(a.category, b.category)
    ELSE LET valA == IF options.sortBy = "variance"
                     THEN getVariance(a, options.comparisonType) ELSE a.actual
             valB == IF options.sortBy = "variance"
                     THEN getVariance(b, options.comparisonType) ELSE b.actual
         IN  valA - valB

\* The comparator applyTopN sorts with: negative when a goes before b
compareForTopN(a, b, options) ==
    IF options.sortBy = "name"
    THEN IF options.sortDirection = "asc"
         THEN localeCompare(a.category, b.category)
         ELSE -localeCompare(a.category, b.category)
    ELSE LET valA == IF options.sortBy = "variance"
                     THEN getVariance(a, options.comparisonType) ELSE a.actual
             valB == IF options.sortBy = "variance"
                     THEN getVariance(b, options.comparisonType) ELSE b.actual
         IN  IF options.sortDirection = "asc" THEN valA - valB ELSE valB - valA

RECURSIVE InsertSorted(_, _, _)
\* x put behind every element that does not have to come after it
InsertSorted(sorted, x, options) ==
    IF sorted = <<>> THEN <<x>>
    ELSE LET last == sorted[Len(sorted)]
         IN  IF compareForTopN(last, x, options) > 0
             THEN Append(InsertSorted(SubSeq(sorted, 1, Len(sorted) - 1), x, options), last)
             ELSE Append(sorted, x)

RECURSIVE StableSort(_, _)
\* Array.prototype.sort (stable) on a copy of the data points
StableSort(points, options) ==
    IF points = <<>> THEN <<>>
    ELSE InsertSorted(StableSort(SubSeq(points, 1, Len(points) - 1), options),
                      points[Len(points)], options)

\* Array.prototype.slice(from, to): a negative index counts from the end
SliceIndex(len, k) == IF k < 0 THEN Max(len + k, 0) ELSE Min(k, len)
Slice(points, from, to) ==
    SubSeq(points, SliceIndex(Len(points), from) + 1, SliceIndex(Len(points), to))

\* Mutant: the Others row keeps the zero variances it is created with
othersPoint_NotRecalculated(rest, options) ==
    [MkDataPoint(options.othersLabel,
                 SumOf(rest, "actual"), SumOf(rest, "budget"),
                 SumOf(rest, "previousYear"), SumOf(rest, "forecast"),
                 "", options.count)
     EXCEPT !.varianceToBudget = 0, !.varianceToBudgetPct = Zero,
            !.varianceToPY = 0, !.varianceToPYPct = Zero,
            !.varianceToFC = 0, !.varianceToFCPct = Zero]

\* The Others row: the sums of the rest, the variances recalculated from them
othersPoint(rest, options) ==
    MkDataPoint(options.othersLabel,
                SumOf(rest, "actual"), SumOf(rest, "budget"),
                SumOf(rest, "previousYear"), SumOf(rest, "forecast"),
                "", options.count)

\* Mutant: the first row of the rest left out of the Others row
applyTopN_RestSkipsOne(data, options) ==
    IF ~options.enable \/ Len(data.dataPoints) <= options.count THEN data
    ELSE LET sorted == StableSort(data.dataPoints, options)
             topN == Slice(sorted, 0, options.count)
             rest == Slice(sorted, options.count + 1, Len(sorted))
         IN  [data EXCEPT !.dataPoints =
                 IF options.showOthers /\ Len(rest) > 0
                 THEN Append(topN, othersPoint(rest, options))
                 ELSE topN]

applyTopN(data, options) ==
    IF ~options.enable \/ Len(data.dataPoints) <= options.count THEN data
    ELSE LET sorted == StableSort(data.dataPoints, options)
             topN == Slice(sorted, 0, options.count)
             rest == Slice(sorted, options.count, Len(sorted))
         IN  [data EXCEPT !.dataPoints =
                 IF options.showOthers /\ Len(rest) > 0
                 THEN Append(topN, othersPoint(rest, options))
                 ELSE topN]

----------------------------------------------------------------------------
(* Readers of the variance: the chart renderers (BaseChart), the outer     *)
(* comment box of the small multiples, and the tooltip.                    *)

\* BaseChart.getVarianceForPoint: bars, labels, waterfall steps, comment cards
getVarianceForPoint(d, st) ==
    IF st.invertVariance THEN -getVariance(d, st.comparisonType)
    ELSE getVariance(d, st.comparisonType)

getVariancePctForPoint(d, st) ==
    IF st.invertVariance THEN Negated(getVariancePct(d, st.comparisonType))
    ELSE getVariancePct(d, st.comparisonType)

\* renderSmallMultiples: the values written on a card of the outer comment box
outerCommentCard(d, st) ==
    LET variance == getVariance(d, st.comparisonType)
        variancePct == getVariancePct(d, st.comparisonType)
    IN  [variance |-> IF st.invertVariance THEN -variance ELSE variance,
         pct |-> IF st.invertVariance THEN Negated(variancePct) ELSE variancePct]

\* buildTooltipForDataPoint: the tooltip items that show a variance
buildTooltipForDataPoint(d, data) ==
    (IF data.hasBudget
     THEN <<[displayName |-> "Variance to Budget",
             variance |-> d.varianceToBudget, pct |-> d.varianceToBudgetPct]>>
     ELSE <<>>)
    \o
    (IF data.hasPreviousYear
     THEN <<[displayName |-> "YoY Change",
             variance |-> d.varianceToPY, pct |-> d.varianceToPYPct]>>
     ELSE <<>>)

----------------------------------------------------------------------------
(* Specification of the single-chart layout: a viewport and a config are   *)
(* drawn, calculateLayout is applied to them.                              *)

NoDims == [width |-> 0, height |-> 0,
           margin |-> [top |-> 0, right |-> 0, bottom |-> 0, left |-> 0],
           layout |-> [titleArea |-> NoArea, legendArea |-> NoArea,
                       commentBoxArea |-> NoArea, chartArea |-> MkRect(0, 0, 0, 0)]]

NoConfig == [title |-> [show |-> FALSE],
             legend |-> [show |-> FALSE, position |-> "right"],
             commentBox |-> [show |-> FALSE],
             categories |-> [show |-> FALSE, rotation |-> 0, maxWidth |-> 0, fontSize |-> 0],
             hasComments |-> FALSE,
             chartType |-> "variance",
             breakpoint |-> "large"]

NoSmConfig == [columns |-> 0, spacing |-> 0, showHeaders |-> FALSE,
               categoryRotation |-> 0, categoryMaxWidth |-> 0, categoryFontSize |-> 0]
NoGrid == [cols |-> 0, rows |-> 0, cellWidth |-> 0, cellHeight |-> 0,
           nan |-> {}, infinite |-> {}]
NoCell == [x |-> 0, y |-> 0,
           margin |-> [top |-> 0, right |-> 0, bottom |-> 0, left |-> 0],
           headerHeight |-> 0, chartWidth |-> 0, chartHeight |-> 0]

NoViewport == MkRect(0, 0, 0, 0)
NoPosition == {}

NoDataView == [category |-> <<>>, actual |-> <<>>, budget |-> <<>>,
               previousYear |-> <<>>, forecast |-> <<>>, comments |-> <<>>]
NoParsedData == {}
NoTopNOptions == [enable |-> FALSE, count |-> 0, sortBy |-> "value",
                  sortDirection |-> "desc", showOthers |-> FALSE,
                  othersLabel |-> "Others", comparisonType |-> "budget"]
NoTopNData == [dataPoints |-> <<>>,
               hasActual |-> FALSE, hasBudget |-> FALSE, hasPreviousYear |-> FALSE,
               hasForecast |-> FALSE, hasComments |-> FALSE,
               totals |-> [actual |-> 0, budget |-> 0, previousYear |-> 0, forecast |-> 0]]
NoSettings == [invertVariance |-> FALSE, comparisonType |-> "budget"]
NoShown == [chart |-> [variance |-> 0, pct |-> Zero],
            outerCard |-> [variance |-> 0, pct |-> Zero],
            tooltip |-> <<>>]

----------------------------------------------------------------------------
(* The visual (visual.ts): the update cycle, what it draws into the chart  *)
(* container, what it hands to the layout engine and to the charts, and    *)
(* the click handlers it registers. An element of the container is kept    *)
(* with its tag, its fill, its data-dp-index (dp) and its data-index       *)
(* (index); -1 stands for an attribute that is not set. Geometry, texts,   *)
(* styles and the content of a small multiples cell are left out.          *)

Element(tag, role, fill, dp) ==
    [tag |-> tag, role |-> role, fill |-> fill, dp |-> dp, index |-> -1]

EmptyContainer == [children |-> <<>>, transform |-> {}]

\* update: chartContainer.selectAll("*").remove(); attr("transform", null)
\* Mutant: the children removed, the transform left on the container
clearContainer_TransformKept(c) == [c EXCEPT !.children = <<>>]
clearContainer(c) == [children |-> <<>>, transform |-> {}]

\* Settings of the format pane that the model leaves at their defaults
CategoryFontSize == 10
CategoryMaxWidth == 100
ResponsiveMinChartWidth == 150
SmallMultiplesColumns == 0
SmallMultiplesSpacing == 10

\* The values the rotation dropdown offers
RotationItems == {"0", "-45", "-90", "45", "90"}

\* parseInt(String(value)) of a value of the rotation dropdown
ParseInt(str) ==
    CASE str = "0" -> 0
      [] str = "-45" -> -45
      [] str = "-90" -> -90
      [] str = "45" -> 45
      [] str = "90" -> 90

\* a || b of two numbers: 0 is falsy
OrElse(a, b) == IF a = 0 THEN b ELSE a

RECURSIVE Distinct(_)
\* Array.from(new Set(values)): the values in the order of their first occurrence
Distinct(values) ==
    IF values = <<>> THEN <<>>
    ELSE LET front == Distinct(SubSeq(values, 1, Len(values) - 1))
             last == values[Len(values)]
         IN  IF \E k \in DOMAIN front : front[k] = last THEN front
             ELSE Append(front, last)

\* parseDataView: groups and hasGroups of the group column (empty names skipped)
groupsOf(group) == Distinct(SelectSeq(group, LAMBDA g : g # ""))

\* parseDataView of a data view with its group column
parseVisualDataView(dv) ==
    {pd @@ [groups |-> groupsOf(dv.group), hasGroups |-> Len(dv.group) > 0] :
        pd \in parseDataView(dv.columns)}

hasComparisonData(data, comparisonType) ==
    CASE comparisonType = "budget" -> data.hasBudget
      [] comparisonType = "previousYear" -> data.hasPreviousYear
      [] comparisonType = "forecast" -> data.hasForecast
      [] OTHER -> data.hasBudget

\* {} stands for null
getAvailableComparisonType(data) ==
    IF data.hasPreviousYear THEN {"previousYear"}
    ELSE IF data.hasBudget THEN {"budget"}
    ELSE IF data.hasForecast THEN {"forecast"}
    ELSE {}

\* createSelectionIds: one id per row of the category column, in its order
createSelectionIds(dv) ==
    [k \in 1..Len(dv.columns.category) |->
        [row |-> k - 1, category |-> dv.columns.category[k]]]

\* update: the responsive breakpoint of a viewport
responsiveBreakpoint(fs, w, h) ==
    IF ~fs.responsive THEN "large"
    ELSE IF w < ResponsiveMinChartWidth \/ h < ResponsiveMinChartWidth THEN "small"
    ELSE IF 2 * w < 5 * ResponsiveMinChartWidth \/ h < 2 * ResponsiveMinChartWidth
         THEN "medium"
    ELSE "large"

\* update: the ChartSettings built from the format pane, then the overrides
\* of the breakpoint
chartSettingsOf(fs, comparisonType, breakpoint) ==
    LET built ==
            [invertVariance |-> FALSE,
             comparisonType |-> comparisonType,
             title |-> [show |-> fs.title.show, text |-> fs.title.text],
             categories |-> [show |-> TRUE,
                             fontSize |-> CategoryFontSize,
                             rotation |-> OrElse(ParseInt(fs.rotation), -45),
                             maxWidth |-> CategoryMaxWidth],
             legend |-> [show |-> fs.legend.show, position |-> fs.legend.position],
             commentBox |-> [show |-> fs.commentBox.show]]
    IN  IF breakpoint = "small"
        THEN [built EXCEPT !.title.show = FALSE,
                           !.legend.show = FALSE,
                           !.commentBox.show = FALSE,
                           !.categories.fontSize = Min(@, 8),
                           !.categories.rotation = -90]
        ELSE IF breakpoint = "medium"
        THEN [built EXCEPT !.legend.show = FALSE,
                           !.commentBox.show = FALSE,
                           !.categories.fontSize = Min(@, 9)]
        ELSE built

\* Visual.calculateLayout: the LayoutConfig of the single chart
layoutConfigOf(fs, data, chartType, breakpoint) ==
    [title |-> [show |-> fs.title.show],
     legend |-> [show |-> fs.legend.show, position |-> fs.legend.position],
     commentBox |-> [show |-> fs.commentBox.show],
     categories |-> [show |-> TRUE,
                     rotation |-> OrElse(ParseInt(fs.rotation), -45),
                     maxWidth |-> CategoryMaxWidth,
                     fontSize |-> CategoryFontSize],
     hasComments |-> data.hasComments,
     chartType |-> chartType,
     breakpoint |-> breakpoint]

\* update: the LayoutConfig of the small multiples
smallMultiplesLayoutConfigOf(chartSettings, data, chartType, breakpoint) ==
    [title |-> [show |-> chartSettings.title.show],
     legend |-> [show |-> chartSettings.legend.show,
                 position |-> chartSettings.legend.position],
     commentBox |-> [show |-> chartSettings.commentBox.show],
     categories |-> [show |-> chartSettings.categories.show,
                     rotation |-> chartSettings.categories.rotation,
                     maxWidth |-> chartSettings.categories.maxWidth,
                     fontSize |-> chartSettings.categories.fontSize],
     hasComments |-> data.hasComments,
     chartType |-> chartType,
     breakpoint |-> breakpoint]

\* renderSmallMultiples: the SmallMultiplesConfig of the cells
smConfigOf(fs) ==
    [columns |-> SmallMultiplesColumns,
     spacing |-> SmallMultiplesSpacing,
     showHeaders |-> TRUE,
     categoryRotation |-> OrElse(ParseInt(fs.rotation), -45),
     categoryMaxWidth |-> CategoryMaxWidth,
     categoryFontSize |-> CategoryFontSize]

(* What the charts append (BaseChart and its subclasses) *)

HasComment(d) == d.comment # ""

renderTitle(st) ==
    IF ~st.title.show \/ st.title.text = "" THEN <<>>
    ELSE <<Element("text", "chart-title", "color", -1)>>

renderXAxis(st) ==
    IF ~st.categories.show THEN <<>>
    ELSE <<Element("g", "x-axis", "", -1)>>

renderYAxis == <<Element("g", "y-axis", "", -1)>>

\* items: for each legend item whether it is outlined
renderLegend(st, items) ==
    IF ~st.legend.show THEN <<>>
    ELSE [k \in DOMAIN items |->
            Element("rect", "legend", IF items[k] THEN "none" ELSE "color", -1)]

renderCommentBox(data, st, d) ==
    IF ~st.commentBox.show THEN <<>>
    ELSE IF \A k \in DOMAIN data.dataPoints : ~HasComment(data.dataPoints[k]) THEN <<>>
    ELSE IF getCommentBoxPosition(d) = {} THEN <<>>
    ELSE <<Element("foreignObject", "comment-box", "", -1)>>

\* createPatternDefs: the old pattern removed, the forecast hatch appended
createPatternDefs(children) ==
    Append(SelectSeq(children, LAMBDA e : e.role # "forecast-hatch"),
           Element("rect", "forecast-hatch", "color", -1))

RECURSIVE Flatten(_)
Flatten(seqs) ==
    IF seqs = <<>> THEN <<>> ELSE Head(seqs) \o Flatten(Tail(seqs))

\* VarianceChart.render: the three bars of data point i (counted from 0)
varianceBars(st, i) ==
    <<Element("rect", "comparison",
              CASE st.comparisonType = "forecast" -> "url"
                [] st.comparisonType = "previousYear" -> "color"
                [] OTHER -> "none",
              i),
      Element("rect", "actual", "color", i),
      Element("rect", "variance", "color", i)>>

VarianceChartRender(c, data, st, d) ==
    IF getChartArea(d).chartWidth <= 0 \/ getChartArea(d).chartHeight <= 0 THEN c
    ELSE [children |->
              createPatternDefs(c.children)
              \o renderTitle(st) \o renderXAxis(st) \o renderYAxis
              \o Flatten([k \in DOMAIN data.dataPoints |-> varianceBars(st, k - 1)])
              \o renderLegend(st, <<TRUE, FALSE, FALSE, FALSE>>)
              \o renderCommentBox(data, st, d),
          transform |-> {[left |-> d.margin.left, top |-> d.margin.top]}]

\* ColumnChart.render: the series that are bound
columnSeries(data) ==
    <<"actual">>
    \o (IF data.hasBudget THEN <<"budget">> ELSE <<>>)
    \o (IF data.hasPreviousYear THEN <<"previousYear">> ELSE <<>>)
    \o (IF data.hasForecast THEN <<"forecast">> ELSE <<>>)

\* renderGrouped: one bar per series whose value is above zero
columnBars(data, point, i) ==
    LET series == columnSeries(data)
    IN  Flatten([s \in DOMAIN series |->
                    IF point[series[s]] > 0
                    THEN <<Element("rect", series[s], "color", i)>>
                    ELSE <<>>])

ColumnChartRender(c, data, st, d) ==
    IF getChartArea(d).chartWidth <= 0 \/ getChartArea(d).chartHeight <= 0 THEN c
    ELSE [children |->
              c.children
              \o renderTitle(st) \o renderXAxis(st) \o renderYAxis
              \o Flatten([k \in DOMAIN data.dataPoints |->
                             columnBars(data, data.dataPoints[k], k - 1)])
              \o renderLegend(st, [s \in DOMAIN columnSeries(data) |-> FALSE])
              \o renderCommentBox(data, st, d),
          transform |-> {[left |-> d.margin.left, top |-> d.margin.top]}]

\* createChart(...).render()
renderChart(chartType, c, data, st, d) ==
    IF chartType = "column" THEN ColumnChartRender(c, data, st, d)
    ELSE VarianceChartRender(c, data, st, d)

\* buildLegendItems: for each item whether it is outlined
buildLegendItems(chartType) ==
    IF chartType \in {"variance", "waterfall"} THEN <<TRUE, FALSE, FALSE, FALSE>>
    ELSE <<FALSE, TRUE>>

\* renderSmallMultiples: a nested svg per group, then the outer title, legend
\* and comment box; the container's transform is not touched
renderSmallMultiples(c, data, chartType, st) ==
    [c EXCEPT !.children =
        @ \o [k \in DOMAIN data.groups |-> Element("svg", "cell", "", -1)]
          \o (IF st.title.show /\ st.title.text # ""
              THEN <<Element("text", "chart-title", "color", -1)>> ELSE <<>>)
          \o (IF st.legend.show
              THEN [k \in DOMAIN buildLegendItems(chartType) |->
                       Element("rect", "legend",
                               IF buildLegendItems(chartType)[k] THEN "none" ELSE "color",
                               -1)]
              ELSE <<>>)
          \o (IF /\ st.commentBox.show
                 /\ data.hasComments
                 /\ \E k \in DOMAIN data.dataPoints : HasComment(data.dataPoints[k])
              THEN <<Element("foreignObject", "comment-box", "", -1)>> ELSE <<>>)]

\* renderLandingPage: the background, the four bars of the icon, three texts
renderLandingPage(c) ==
    [c EXCEPT !.children =
        @ \o <<Element("rect", "landing-background", "color", -1)>>
          \o [k \in 1..4 |-> Element("rect", "landing-icon", "color", -1)]
          \o [k \in 1..3 |-> Element("text", "landing-text", "color", -1)]]

renderNoData(c) ==
    [c EXCEPT !.children = Append(@, Element("text", "no-data", "color", -1))]

\* addInteractivity: the elements that get a data-index
Tagged(e) ==
    \/ e.tag = "rect" /\ e.fill \notin {"", "none", "white", "#fff"}
    \/ e.tag = "circle" /\ e.role \notin {"comment-marker", "comment-card-marker"}

\* the running count over the tagged elements of one tag, in document order
TagElements(elements, tag) ==
    [k \in DOMAIN elements |->
        IF elements[k].tag = tag /\ Tagged(elements[k])
        THEN [elements[k] EXCEPT !.index =
                 Cardinality({j \in 1..(k - 1) :
                     elements[j].tag = tag /\ Tagged(elements[j])})]
        ELSE elements[k]]

\* addInteractivity: the tags, then the handlers of the elements and the svg
addInteractivity(this, fs) ==
    LET dataPointCount ==
            OrElse(Len((CHOOSE d \in this.parsedData : TRUE).dataPoints), 1)
        handler == [crossFilterMode |-> fs.crossFilterMode,
                    dataPointCount |-> dataPointCount]
    IN  [this EXCEPT
            !.chartContainer.children = TagElements(TagElements(@, "rect"), "circle"),
            !.elementClick = IF fs.enableSelection THEN {handler} ELSE {},
            !.svgClick = IF fs.enableSelection THEN {handler} ELSE @]

(* Visual.update *)

NoChartSettings ==
    [invertVariance |-> FALSE,
     comparisonType |-> "budget",
     title |-> [show |-> FALSE, text |-> ""],
     categories |-> [show |-> FALSE, fontSize |-> 0, rotation |-> 0, maxWidth |-> 0],
     legend |-> [show |-> FALSE, position |-> "right"],
     commentBox |-> [show |-> FALSE]]

\* What one call of update did: the path it took, whether it found a
\* transform on the container, and what it handed to the layout engine and
\* to the charts
TraceOf(path, this) ==
    [path |-> path,
     enteredTranslated |-> this.chartContainer.transform # {},
     breakpoint |-> "large",
     chartType |-> "variance",
     layoutConfig |-> NoConfig,
     chartSettings |-> NoChartSettings,
     smConfig |-> NoSmConfig,
     dimensions |-> NoDims]

\* The result of the try block: finished tells that renderingFinished was
\* signalled, thrown that an error left the block
Outcome(v, t, finished, thrown) ==
    [visual |-> v, trace |-> t, finished |-> finished, thrown |-> thrown]

\* update from "Build comprehensive chart settings" on: the settings, then
\* the small multiples or the single chart with its click handlers
renderWithSettings(this, o, fs, data, comparisonType) ==
    LET breakpoint == responsiveBreakpoint(fs, o.width, o.height)
        st == chartSettingsOf(fs, comparisonType, breakpoint)
        trace == [TraceOf("single", this) EXCEPT !.breakpoint = breakpoint,
                                                 !.chartType = fs.chartType,
                                                 !.chartSettings = st]
    IN  IF this.palette.isHighContrast /\ ~this.palette.hasColors
        THEN \* highContrastColors is null: reading its foreground throws
             Outcome(this, [TraceOf("thrown", this) EXCEPT !.breakpoint = breakpoint,
                                                           !.chartType = fs.chartType],
                     FALSE, TRUE)
        ELSE IF data.hasGroups /\ Len(data.groups) > 1
        THEN Outcome([this EXCEPT !.chartContainer =
                         renderSmallMultiples(@, data, fs.chartType, st)],
                     [trace EXCEPT
                         !.path = "multiples",
                         !.layoutConfig =
                             smallMultiplesLayoutConfigOf(st, data, fs.chartType, breakpoint),
                         !.smConfig = smConfigOf(fs)],
                     TRUE, FALSE)
        ELSE LET layoutConfig == layoutConfigOf(fs, data, fs.chartType, breakpoint)
                 dimensions == calculateLayout(o.width, o.height, layoutConfig)
                 drawn == [this EXCEPT !.chartContainer =
                              renderChart(fs.chartType, @, data, st, dimensions)]
             IN  Outcome(addInteractivity(drawn, fs),
                         [trace EXCEPT !.layoutConfig = layoutConfig,
                                       !.dimensions = dimensions],
                         TRUE, FALSE)

\* update once the data is parsed: the selection ids, the comparison type,
\* Top N
renderParsed(this, o, dv, parsed) ==
    LET fs == dv.settings
        withIds == [this EXCEPT !.selectionIds = createSelectionIds(dv)]
        available == getAvailableComparisonType(parsed)
        hasComparison == hasComparisonData(parsed, fs.comparisonType)
        comparisonType ==
            IF hasComparison \/ available = {} THEN fs.comparisonType
            ELSE CHOOSE t \in available : TRUE
        data == applyTopN(parsed,
                          [enable |-> fs.topN.enable,
                           count |-> fs.topN.count,
                           sortBy |-> fs.topN.sortBy,
                           sortDirection |-> fs.topN.sortDirection,
                           showOthers |-> fs.topN.showOthers,
                           othersLabel |-> "Others",
                           comparisonType |-> comparisonType])
    IN  IF /\ ~hasComparison
           /\ available = {}
           /\ fs.chartType \in {"variance", "waterfall", "lollipop", "dot"}
        THEN Outcome([withIds EXCEPT !.chartContainer = renderNoData(@)],
                     TraceOf("noData", this), TRUE, FALSE)
        ELSE renderWithSettings([withIds EXCEPT !.parsedData = {data}],
                                o, fs, data, comparisonType)

\* The body of update's try block. The svg takes the size of the viewport
\* (the target element is at least as large).
tryUpdate(this, o) ==
    LET cleared == [this EXCEPT !.chartContainer = clearContainer(@),
                                !.elementClick = {},
                                !.selectionIds = <<>>,
                                !.dataView = o.dataView]
        Entered(outcome) ==
            [outcome EXCEPT !.trace.enteredTranslated = this.chartContainer.transform # {}]
    IN  IF o.dataView = {}
        THEN Entered(Outcome([cleared EXCEPT !.chartContainer = renderLandingPage(@)],
                             TraceOf("landing", this), TRUE, FALSE))
        ELSE LET dv == CHOOSE d \in o.dataView : TRUE
                 parsed == parseVisualDataView(dv)
                 withParsed == [cleared EXCEPT !.parsedData = parsed]
             IN  IF \/ parsed = {}
                    \/ \E d \in parsed : Len(d.dataPoints) = 0
                 THEN Entered(Outcome([withParsed EXCEPT
                                          !.chartContainer = renderLandingPage(@)],
                                      TraceOf("landing", this), TRUE, FALSE))
                 ELSE Entered(renderParsed(withParsed, o, dv,
                                           CHOOSE d \in parsed : TRUE))

\* Mutant: no signal when the try block throws
update_FailureNotSignalled(this, o) ==
    LET outcome == tryUpdate(this, o)
    IN  [visual |-> outcome.visual,
         trace |-> outcome.trace,
         signals |-> <<"renderingStarted">>
                     \o (IF outcome.finished THEN <<"renderingFinished">> ELSE <<>>),
         thrown |-> outcome.thrown]

\* Visual.update: renderingStarted, the try block, and renderingFailed with
\* the error rethrown when the block throws
update(this, o) ==
    LET outcome == tryUpdate(this, o)
    IN  [visual |-> outcome.visual,
         trace |-> outcome.trace,
         signals |-> <<"renderingStarted">>
                     \o (IF outcome.finished THEN <<"renderingFinished">> ELSE <<>>)
                     \o (IF outcome.thrown THEN <<"renderingFailed">> ELSE <<>>),
         thrown |-> outcome.thrown]

(* The click handlers *)

\* applyCrossFilter: the new set of values and the filter handed to the host
applyCrossFilter(this, host, dpIndex, isMultiSelect) ==
    IF this.dataView = {} \/ this.parsedData = {} THEN [visual |-> this, host |-> host]
    ELSE LET dataPoints == (CHOOSE d \in this.parsedData : TRUE).dataPoints
         IN  IF dpIndex + 1 \notin DOMAIN dataPoints
             THEN [visual |-> this, host |-> host]
             ELSE LET values == (IF isMultiSelect THEN this.crossFilterValues ELSE {})
                                \cup {dataPoints[dpIndex + 1].category}
                  IN  [visual |-> [this EXCEPT !.crossFilterValues = values],
                       host |-> [host EXCEPT !.filter = [operator |-> "In",
                                                         values |-> values]]]

\* clearCrossFilter
clearCrossFilter(this, host) ==
    [visual |-> [this EXCEPT !.crossFilterValues = {}],
     host |-> [host EXCEPT !.filter = [operator |-> "removed", values |-> {}]]]

\* The click handler of a tagged element
clickElement(this, host, element, isMultiSelect) ==
    LET handler == CHOOSE h \in this.elementClick : TRUE
        dpIndex == element.index % handler.dataPointCount
    IN  IF dpIndex < Len(this.selectionIds)
        THEN LET selected == [host EXCEPT !.selected =
                                 {[id |-> this.selectionIds[dpIndex + 1],
                                   multiSelect |-> isMultiSelect]}]
             IN  IF handler.crossFilterMode = "filter"
                 THEN applyCrossFilter(this, selected, dpIndex, isMultiSelect)
                 ELSE [visual |-> this, host |-> selected]
        ELSE [visual |-> this, host |-> host]

\* The click handler of the svg, for a target without data-index
clickEmptySpace(this, host) ==
    LET handler == CHOOSE h \in this.svgClick : TRUE
        cleared == [host EXCEPT !.selected = {}]
    IN  IF handler.crossFilterMode = "filter"
        THEN clearCrossFilter(this, cleared)
        ELSE [visual |-> this, host |-> cleared]

(* The visual as constructed, and the host before any call *)

NormalPalette == [isHighContrast |-> FALSE, hasColors |-> FALSE]

\* constructor: a high contrast palette may come without its colours
Palettes ==
    {p \in [isHighContrast : Booleans, hasColors : Booleans] :
        p.hasColors => p.isHighContrast}

Constructed(palette) ==
    [palette |-> palette,
     dataView |-> {},
     parsedData |-> {},
     selectionIds |-> <<>>,
     chartContainer |-> EmptyContainer,
     crossFilterValues |-> {},
     elementClick |-> {},
     svgClick |-> {}]

NoHost == [signals |-> <<>>, thrown |-> FALSE, selected |-> {},
           filter |-> [operator |-> "none", values |-> {}]]
NoOptions == [dataView |-> {}, width |-> 0, height |-> 0]
NoEvent == [kind |-> "none", element |-> 0, multiSelect |-> FALSE]
NoTrace == TraceOf("none", Constructed(NormalPalette))

VisualIdle ==
    /\ visual = Constructed(NormalPalette)
    /\ powerbi = NoHost
    /\ lastUpdate = NoTrace
    /\ updateOptions = NoOptions
    /\ event = NoEvent

DataIdle ==
    /\ dataView = NoDataView
    /\ parsedData = NoParsedData
    /\ topNOptions = NoTopNOptions
    /\ topNData = NoTopNData
    /\ settings = NoSettings
    /\ pointIndex = 0
    /\ shown = NoShown

GridIdle ==
    /\ totalWidth = 0
    /\ totalHeight = 0
    /\ groupCount = 0
    /\ smConfig = NoSmConfig
    /\ grid = NoGrid
    /\ cellIndex = 0
    /\ cell = NoCell

Init ==
    /\ pc = "input"
    /\ width \in Widths
    /\ height \in Heights
    /\ config \in LayoutConfigs
    /\ dims = NoDims
    /\ vp = NoViewport
    /\ commentPos = NoPosition
    /\ GridIdle
    /\ DataIdle
    /\ VisualIdle

CalculateLayout ==
    /\ pc = "input"
    /\ dims' = calculateLayout(width, height, config)
    /\ pc' = "layout"
    /\ UNCHANGED <<width, height, config, vp, commentPos>>
    /\ UNCHANGED gridVars
    /\ UNCHANGED dataVars
    /\ UNCHANGED visualVars

\* renderSmallMultiples asks for the grid viewport of the same viewport and config
GetSmallMultiplesViewport ==
    /\ pc = "layout"
    /\ vp' = getSmallMultiplesViewport(width, height, config)
    /\ pc' = "viewport"
    /\ UNCHANGED <<width, height, config, dims, commentPos>>
    /\ UNCHANGED gridVars
    /\ UNCHANGED dataVars
    /\ UNCHANGED visualVars

\* renderCommentBox asks where to draw the comment box of the layout
GetCommentBoxPosition ==
    /\ pc = "layout"
    /\ commentPos' = getCommentBoxPosition(dims)
    /\ pc' = "commentBox"
    /\ UNCHANGED <<width, height, config, dims, vp>>
    /\ UNCHANGED gridVars
    /\ UNCHANGED dataVars
    /\ UNCHANGED visualVars

Next == CalculateLayout \/ GetSmallMultiplesViewport \/ GetCommentBoxPosition

Spec == Init /\ [][Next]_vars

----------------------------------------------------------------------------
(* Properties of calculateLayout, checked under Spec *)

LaidOut == pc = "layout"
NotSmall == config.breakpoint # "small"

\* The margins before the clamp, and whether the clamp rescales them
Unclamped == finalMargins(width, height, config)
ClampsHorizontal == Unclamped.left + Unclamped.right > width - MinChartWidth
ClampsVertical == Unclamped.top + Unclamped.bottom > Fx(height - MinChartHeight)

MarginsInsideViewport(d) ==
    /\ d.margin.top >= 0
    /\ d.margin.right >= 0
    /\ d.margin.bottom >= 0
    /\ d.margin.left >= 0
    /\ d.margin.left + d.margin.right < d.width
    /\ d.margin.top + d.margin.bottom < Fx(d.height)

\* C1 as stated: for every viewport with width >= 0 and height >= 0 and every
\* config, the margins of calculateLayout are non-negative, with
\* left + right < width and top + bottom < height.
C1_AnyViewport == LaidOut => MarginsInsideViewport(dims)

\* C1, amended: the margins are non-negative with left + right < width and
\* top + bottom < height for every viewport with width >= 50 and height >= 30
\* (width > 50 and height > 30 under the small breakpoint).
C1_MarginsInsideViewport ==
    (/\ LaidOut
     /\ width >= MinChartWidth
     /\ height >= MinChartHeight
     /\ (~NotSmall => width > MinChartWidth /\ height > MinChartHeight))
    => MarginsInsideViewport(dims)

\* C1 witness: a 300x100 viewport with title, right legend and comment box,
\* rotated labels, both clamps rescaling the margins.
C1_Witness ==
    /\ LaidOut
    /\ NotSmall
    /\ width = 300
    /\ height = 100
    /\ config.title.show
    /\ config.legend.show
    /\ config.legend.position = "right"
    /\ commentBoxShown(config)
    /\ config.categories.show
    /\ config.categories.rotation = -45
    /\ ClampsHorizontal
    /\ ClampsVertical
    /\ dims.margin.left + dims.margin.right < Unclamped.left + Unclamped.right
    /\ MarginsInsideViewport(dims)

\* C2: when the breakpoint is not "small", calculateLayout followed by
\* getChartArea gives chartWidth >= 50 and chartHeight >= 30, clamped or not;
\* in particular both are positive for width >= 300 and height >= 200 with
\* title, right legend and comment box enabled.
C2_MinimumChartArea ==
    (LaidOut /\ NotSmall) =>
        /\ getChartArea(dims).chartWidth >= MinChartWidth
        /\ getChartArea(dims).chartHeight >= Fx(MinChartHeight)
        /\ (/\ width >= 300
            /\ height >= 200
            /\ config.title.show
            /\ config.legend.show
            /\ config.legend.position = "right"
            /\ commentBoxShown(config))
           => (getChartArea(dims).chartWidth > 0 /\ getChartArea(dims).chartHeight > 0)

\* C2 witness: 300x200 with title, right legend and comment box, both clamps
\* rescaling the margins.
C2_Witness ==
    /\ LaidOut
    /\ NotSmall
    /\ width = 300
    /\ height = 200
    /\ config.title.show
    /\ config.legend.show
    /\ config.legend.position = "right"
    /\ commentBoxShown(config)
    /\ ClampsHorizontal
    /\ ClampsVertical
    /\ getChartArea(dims).chartWidth >= MinChartWidth
    /\ getChartArea(dims).chartHeight >= Fx(MinChartHeight)

\* The layout of the same viewport under another config
LayoutWith(cfg) == calculateLayout(width, height, cfg)
NoTitle(cfg) == [cfg EXCEPT !.title.show = FALSE]
NoLegend(cfg) == [cfg EXCEPT !.legend.show = FALSE]
NoCommentBox(cfg) == [cfg EXCEPT !.commentBox.show = FALSE]
RightLegend == config.legend.show /\ config.legend.position = "right"

\* What enabling each peripheral adds to the margins of the config without it
PeripheralsAdd ==
    /\ config.title.show =>
         dims.margin.top = LayoutWith(NoTitle(config)).margin.top + Fx(TitleHeight)
    /\ RightLegend =>
         dims.margin.right = LayoutWith(NoLegend(config)).margin.right + LegendSideSize
    /\ commentBoxShown(config) =>
         dims.margin.right = LayoutWith(NoCommentBox(config)).margin.right + CommentBoxWidth
    /\ (RightLegend /\ commentBoxShown(config)) =>
         dims.margin.right = LayoutWith(NoLegend(NoCommentBox(config))).margin.right
                               + LegendSideSize + CommentBoxWidth
    /\ (config.title.show /\ RightLegend /\ commentBoxShown(config)) =>
         LET bare == LayoutWith(NoTitle(NoLegend(NoCommentBox(config)))).margin
         IN  /\ dims.margin.top = bare.top + Fx(TitleHeight)
             /\ dims.margin.right = bare.right + LegendSideSize + CommentBoxWidth

\* C3 as stated: for every viewport and every config that is not "small",
\* enabling the title adds exactly 30 to margin.top, a right legend exactly 80
\* and the comment box (with comments) exactly 220 to margin.right, and the
\* increases add up when several are enabled.
C3_AdditiveAnyViewport == (LaidOut /\ NotSmall) => PeripheralsAdd

\* C3, amended: the same, for the viewports in which the clamp does not rescale
\* the margins of the config with the peripherals enabled
\* (left + right <= width - 50 and top + bottom <= height - 30).
C3_AdditiveUnclamped ==
    (LaidOut /\ NotSmall /\ ~ClampsHorizontal /\ ~ClampsVertical) => PeripheralsAdd

\* C3 witness: title, right legend and comment box enabled together in a
\* viewport that needs no clamp: top = 30 + 30, right = 30 + 80 + 220.
C3_Witness ==
    /\ LaidOut
    /\ config.breakpoint = "large"
    /\ config.title.show
    /\ RightLegend
    /\ commentBoxShown(config)
    /\ ~ClampsHorizontal
    /\ ~ClampsVertical
    /\ dims.margin.top = Fx(60)
    /\ dims.margin.right = 330
    /\ LayoutWith(NoTitle(NoLegend(NoCommentBox(config)))).margin.right = 30

RightEdge(r) == r.x + r.width

\* No comment box is recorded without comments, and margin.right is that of the
\* config with the comment box switched off
NoCommentsNoBox ==
    ~config.hasComments =>
        /\ dims.layout.commentBoxArea = NoArea
        /\ dims.margin.right = LayoutWith(NoCommentBox(config)).margin.right

\* C4 as stated: with commentBox.show and hasComments, not "small", a
\* commentBoxArea of width 220 is recorded for every legend position, its right
\* edge is the viewport's right edge and neither legendArea nor chartArea
\* extends to the right of it; without comments none is recorded and
\* margin.right is unchanged.
C4_RightmostAllocation ==
    (LaidOut /\ NotSmall) =>
        /\ commentBoxShown(config) =>
             /\ Cardinality(dims.layout.commentBoxArea) = 1
             /\ \A cb \in dims.layout.commentBoxArea :
                   /\ cb.width = CommentBoxWidth
                   /\ RightEdge(cb) = width
                   /\ RightEdge(dims.layout.chartArea) <= RightEdge(cb)
                   /\ \A lg \in dims.layout.legendArea : RightEdge(lg) <= RightEdge(cb)
        /\ NoCommentsNoBox

\* C4, amended: the commentBoxArea of width 220 is recorded for every legend
\* position and starts where the chartArea ends; its right edge is the
\* viewport's right edge, except under a right legend, which is the rightmost
\* allocation: then the comment box ends where the legendArea starts.  A top,
\* bottom or left legend does not extend to the right of it in a viewport at
\* least as wide as a side legend (80).  Without comments none is recorded and
\* margin.right is unchanged.
C4_RightOfChart ==
    (LaidOut /\ NotSmall) =>
        /\ commentBoxShown(config) =>
             /\ Cardinality(dims.layout.commentBoxArea) = 1
             /\ \A cb \in dims.layout.commentBoxArea :
                   /\ cb.width = CommentBoxWidth
                   /\ cb.x = RightEdge(dims.layout.chartArea)
                   /\ IF RightLegend
                      THEN \A lg \in dims.layout.legendArea :
                              RightEdge(cb) = lg.x /\ RightEdge(lg) = width
                      ELSE /\ RightEdge(cb) = width
                           /\ width >= LegendSideSize =>
                                 \A lg \in dims.layout.legendArea :
                                     RightEdge(lg) <= RightEdge(cb)
        /\ NoCommentsNoBox

\* C4 witness: a comment box recorded beside a left legend, ending at the
\* viewport's right edge.
C4_Witness ==
    /\ LaidOut
    /\ NotSmall
    /\ width = 800
    /\ commentBoxShown(config)
    /\ config.legend.show
    /\ config.legend.position = "left"
    /\ \E cb \in dims.layout.commentBoxArea : cb.x = 580 /\ RightEdge(cb) = 800
    /\ \E lg \in dims.layout.legendArea : lg.x = 0 /\ lg.width = LegendSideSize

\* C5: under the "small" breakpoint the margins are exactly
\* {top 5, right 15, bottom 25, left 35} for every viewport and every other
\* config field, and no titleArea, legendArea or commentBoxArea is recorded.
C5_SmallBreakpoint ==
    (LaidOut /\ ~NotSmall) =>
        /\ dims.margin = [top |-> Fx(5), right |-> 15, bottom |-> Fx(25), left |-> 35]
        /\ dims.layout.titleArea = NoArea
        /\ dims.layout.legendArea = NoArea
        /\ dims.layout.commentBoxArea = NoArea

\* C5 witness: the small breakpoint with title, left legend, comment box,
\* rotated labels and a lollipop chart all set.
C5_Witness ==
    /\ LaidOut
    /\ config.breakpoint = "small"
    /\ config.title.show
    /\ config.legend.show
    /\ config.legend.position = "left"
    /\ commentBoxShown(config)
    /\ config.categories.rotation = 90
    /\ config.chartType = "lollipop"
    /\ width = 800
    /\ dims.margin.left = 35

Lollipop == config.chartType = "lollipop"
LeftLegend == config.legend.show /\ config.legend.position = "left"

\* C6 as stated: not "small" and chartType "lollipop" give margin.left = 100,
\* whatever the legend position, the breakpoint and the viewport.
C6_LollipopLeftIs100 == (LaidOut /\ NotSmall /\ Lollipop) => dims.margin.left = 100

\* C6, amended: not "small" and chartType "lollipop" give an axis margin of 100
\* on the left at the medium and the large breakpoint: margin.left = 100, plus
\* the 80 of a left legend, when the clamp does not rescale left and right.
C6_LollipopAxisLeft ==
    (LaidOut /\ NotSmall /\ Lollipop /\ ~ClampsHorizontal) =>
        dims.margin.left = (IF LeftLegend THEN LegendSideSize ELSE 0) + 100

\* C6 witness: a lollipop chart at the medium breakpoint with a left legend.
C6_Witness ==
    /\ LaidOut
    /\ Lollipop
    /\ config.breakpoint = "medium"
    /\ LeftLegend
    /\ ~ClampsHorizontal
    /\ dims.margin.left = 180

Waterfall == config.chartType = "waterfall"
OtherChartTypes == ChartTypes \ {"waterfall"}
WithChartType(ct) == [config EXCEPT !.chartType = ct]

\* C7 as stated: not "small" (medium included), the waterfall chart's
\* margin.bottom is strictly larger than that of the same config with another
\* chart type, for every viewport.
C7_WaterfallAlwaysLarger ==
    (LaidOut /\ NotSmall /\ Waterfall) =>
        \A ct \in OtherChartTypes :
            dims.margin.bottom > LayoutWith(WithChartType(ct)).margin.bottom

\* C7, amended: strictly larger when the clamp does not rescale the waterfall
\* chart's top and bottom and, at the medium breakpoint, the other chart type's
\* axis margin is below the 60 the breakpoint caps it at.
C7_WaterfallLarger ==
    (LaidOut /\ NotSmall /\ Waterfall /\ ~ClampsVertical) =>
        \A ct \in OtherChartTypes :
            (config.breakpoint = "medium" => axisBottom(WithChartType(ct)) < Fx(60))
            => dims.margin.bottom > LayoutWith(WithChartType(ct)).margin.bottom

\* C7 witness: a waterfall chart at the medium breakpoint with unrotated
\* labels: bottom 60 against the 50 of the other chart types.
C7_Witness ==
    /\ LaidOut
    /\ Waterfall
    /\ config.breakpoint = "medium"
    /\ ~ClampsVertical
    /\ config.categories.show
    /\ config.categories.rotation = 0
    /\ config.categories.fontSize = 10
    /\ ~config.title.show
    /\ ~config.legend.show
    /\ dims.margin.bottom = Fx(60)
    /\ LayoutWith(WithChartType("variance")).margin.bottom = Fx(50)

\* C8: for any viewport and config, margin.left + chartWidth + margin.right is
\* the viewport width and margin.top + chartHeight + margin.bottom its height,
\* also when the clamp rescaled the margins and under the small breakpoint.
C8_MarginConservation ==
    LaidOut =>
        /\ dims.margin.left + getChartArea(dims).chartWidth + dims.margin.right = width
        /\ dims.margin.top + getChartArea(dims).chartHeight + dims.margin.bottom
             = Fx(height)

\* C8 witness: margins rescaled by both clamps, the chart area being what is left.
C8_Witness ==
    /\ LaidOut
    /\ NotSmall
    /\ ClampsHorizontal
    /\ ClampsVertical
    /\ width = 300
    /\ height = 200
    /\ dims.margin.left + dims.margin.right < Unclamped.left + Unclamped.right
    /\ dims.margin.top + dims.margin.bottom < Unclamped.top + Unclamped.bottom
    /\ getChartArea(dims).chartWidth = 300 - dims.margin.left - dims.margin.right

----------------------------------------------------------------------------
(* Properties of getSmallMultiplesViewport and getCommentBoxPosition,      *)
(* checked under Spec                                                      *)

ViewportTaken == pc = "viewport"
PositionTaken == pc = "commentBox"
AreaRecorded == dims.layout.commentBoxArea # NoArea

\* C11: for every viewport and every config whose breakpoint is not
\* "small", the rect returned by getSmallMultiplesViewport equals the
\* layout.chartArea that calculateLayout records for the same arguments.
C11_ViewportIsChartArea ==
    (ViewportTaken /\ NotSmall) => vp = dims.layout.chartArea

\* Title, left legend and comment box all carve: the grid viewport of an
\* 800 wide viewport starts at (80, 30) and is 500 wide.
C11_Witness ==
    /\ ViewportTaken
    /\ NotSmall
    /\ config.title.show
    /\ LeftLegend
    /\ commentBoxShown(config)
    /\ width = 800
    /\ vp = MkRect(80, 30, 500, height - 30)
    /\ vp = dims.layout.chartArea

\* C12: getCommentBoxPosition returns null whenever the layout it is given
\* recorded no commentBoxArea, and a position only when one was recorded.
C12_NullWithoutArea ==
    PositionTaken => (commentPos = {} <=> ~AreaRecorded)

\* C13: whenever calculateLayout records a commentBoxArea, the comment box
\* placed by getCommentBoxPosition ends inside the viewport:
\* margin.left + x + boxWidth <= width, clamped margins included.
C13_CommentBoxInsideViewport ==
    (PositionTaken /\ AreaRecorded) =>
        \A p \in commentPos : dims.margin.left + p.x + p.boxWidth <= width

\* C25: for every viewport and every config whose breakpoint is not
\* "small", the rectangle the renderers draw in, with origin (margin.left,
\* margin.top) and size chartWidth x chartHeight, lies inside
\* layout.chartArea, also when the clamp has rescaled the margins.
C25_DrawnInsideChartArea ==
    (LaidOut /\ NotSmall) =>
        LET area == dims.layout.chartArea
            drawn == getChartArea(dims)
        IN  /\ area.x <= dims.margin.left
            /\ dims.margin.left + drawn.chartWidth <= area.x + area.width
            /\ Fx(area.y) <= dims.margin.top
            /\ dims.margin.top + drawn.chartHeight <= Fx(area.y + area.height)

----------------------------------------------------------------------------
(* Specification of the small multiples grid: a viewport, a group count    *)
(* and a config are drawn; the grid is computed, then the cells of the     *)
(* groups are laid out, as renderSmallMultiples does.                      *)

GridWidths == {0, 100} \cup {250 * i : i \in 1..MaxGridSteps}
GridHeights == {0, 60} \cup {100 * i : i \in 1..MaxHeightSteps}
Spacings == {0, 10}

SmallMultiplesConfigs ==
    [columns : 0..MaxColumns,
     spacing : Spacings,
     showHeaders : Booleans,
     categoryRotation : Rotations,
     categoryMaxWidth : LabelWidths,
     categoryFontSize : FontSizes]

LayoutIdle ==
    /\ width = 0
    /\ height = 0
    /\ config = NoConfig
    /\ dims = NoDims
    /\ vp = NoViewport
    /\ commentPos = NoPosition

InitGrid ==
    /\ pc = "input"
    /\ totalWidth \in GridWidths
    /\ totalHeight \in GridHeights
    /\ groupCount \in 0..MaxGroups
    /\ smConfig \in SmallMultiplesConfigs
    /\ grid = NoGrid
    /\ cellIndex = 0
    /\ cell = NoCell
    /\ LayoutIdle
    /\ DataIdle
    /\ VisualIdle

CalculateGrid ==
    /\ pc = "input"
    /\ grid' = calculateSmallMultiplesGrid(totalWidth, totalHeight, groupCount, smConfig)
    /\ pc' = "grid"
    /\ UNCHANGED <<totalWidth, totalHeight, groupCount, smConfig, cellIndex, cell>>
    /\ UNCHANGED layoutVars
    /\ UNCHANGED dataVars
    /\ UNCHANGED visualVars

CalculateCell ==
    /\ pc \in {"grid", "cell"}
    /\ \E i \in 0..(groupCount - 1) :
          /\ cellIndex' = i
          /\ cell' = calculateCellLayout(grid, i, smConfig)
    /\ pc' = "cell"
    /\ UNCHANGED <<totalWidth, totalHeight, groupCount, smConfig, grid>>
    /\ UNCHANGED layoutVars
    /\ UNCHANGED dataVars
    /\ UNCHANGED visualVars

NextGrid == CalculateGrid \/ CalculateCell

SpecGrid == InitGrid /\ [][NextGrid]_vars

----------------------------------------------------------------------------
(* Properties of the small multiples grid, checked under SpecGrid *)

CellLaidOut == pc = "cell"
CellAvailHeight == grid.cellHeight - cell.headerHeight
GridComputed == pc = "grid"
GridIsFinite == grid.nan = {} /\ grid.infinite = {}

\* C9: for groupCount >= 1, any viewport, spacing >= 0 and any columns setting,
\* every cell index in [0, groupCount) has cell.x + cellWidth <= viewportWidth
\* and cell.y + cellHeight <= viewportHeight.
C9_GridCoverage ==
    CellLaidOut =>
        /\ cell.x + grid.cellWidth <= totalWidth
        /\ cell.y + grid.cellHeight <= totalHeight

\* C9 witness: the last cell of a grid of several rows and columns, with
\* spacing, ending inside the viewport.
C9_Witness ==
    /\ CellLaidOut
    /\ groupCount = 5
    /\ cellIndex = 4
    /\ grid.cols = 2
    /\ grid.rows = 3
    /\ smConfig.spacing = 10
    /\ cell.x > 0
    /\ cell.y > 0
    /\ grid.cellWidth > 0
    /\ grid.cellHeight > 0
    /\ cell.y + grid.cellHeight + smConfig.spacing <= totalHeight

\* C10 as stated: for every grid and config, chartHeight is at least 60% of the
\* cell's available height (cellHeight - headerHeight).
C10_ChartKeeps60Percent ==
    CellLaidOut => 10 * cell.chartHeight >= 6 * Fx(CellAvailHeight)

\* C10, amended: chartHeight together with the fixed top margin of 10 is at
\* least 60% of the cell's available height: the cap of 40% is on the bottom
\* margin alone, so chartHeight >= 0.6 * (cellHeight - headerHeight) - 10.
C10_ChartAndTopKeep60Percent ==
    CellLaidOut =>
        10 * (cell.chartHeight + cell.margin.top) >= 6 * Fx(CellAvailHeight)

\* C10 witness: labels rotated by 90 degrees, whose margin of 115 is capped to
\* 40% of the available height.
C10_Witness ==
    /\ CellLaidOut
    /\ smConfig.categoryRotation = 90
    /\ CellAvailHeight > 0
    /\ cellLabelMargin(smConfig) > Fx(maxBottomMargin(CellAvailHeight))
    /\ cell.margin.bottom = Fx(maxBottomMargin(CellAvailHeight))
    /\ cell.chartHeight > 0

\* C14: calculateSmallMultiplesGrid returns a grid whose fields are all
\* finite numbers for degenerate inputs too: a viewport of width or height 0
\* and a group count of 0 with auto columns.  (The results of
\* calculateLayout, getSmallMultiplesViewport and calculateCellLayout are
\* sums, products and floors of finite numbers with non-zero divisors.)
C14_GridIsFinite ==
    GridComputed => GridIsFinite

\* C19: for every grid, cell index and config, the cell layout satisfies
\* margin.left + chartWidth + margin.right = cellWidth and
\* headerHeight + margin.top + chartHeight + margin.bottom = cellHeight,
\* also after the bottom margin has been clamped.
C19_CellMarginConservation ==
    CellLaidOut =>
        /\ cell.margin.left + cell.chartWidth + cell.margin.right = grid.cellWidth
        /\ Fx(cell.headerHeight) + cell.margin.top + cell.chartHeight
               + cell.margin.bottom = Fx(grid.cellHeight)

\* A cell with a header whose bottom margin was clamped below what the
\* rotated labels ask for, and with side padding below its maximum.
C19_Witness ==
    /\ CellLaidOut
    /\ smConfig.showHeaders
    /\ cell.headerHeight = HeaderHeight
    /\ cell.margin.bottom < cellLabelMargin(smConfig)
    /\ cell.margin.bottom > 0
    /\ cell.margin.left > 0
    /\ cell.margin.left < MaxSidePad
    /\ cell.chartWidth > 0
    /\ cell.chartHeight > 0

\* C20: for every grid and config (any rotation, label width and font
\* size), margin.bottom of the cell never exceeds 40% of the cell's
\* available height (cellHeight - headerHeight).
C20_BottomMarginAtMost40Percent ==
    CellLaidOut => 10 * cell.margin.bottom <= 4 * Fx(CellAvailHeight)

\* Unrotated labels of font size 16 ask for 36px; the available height
\* allows less, and the margin is cut to the floor of 40% of it.
C20_Witness ==
    /\ CellLaidOut
    /\ smConfig.categoryRotation = 0
    /\ smConfig.categoryFontSize = 16
    /\ CellAvailHeight > 0
    /\ CellAvailHeight < 90
    /\ cell.margin.bottom = Fx(maxBottomMargin(CellAvailHeight))
    /\ cell.margin.bottom < cellLabelMargin(smConfig)

\* The column and the row a cell lies in, read off its position
ColumnAt(c) == (c.x - smConfig.spacing) \div (grid.cellWidth + smConfig.spacing)
RowAt(c) == (c.y - smConfig.spacing) \div (grid.cellHeight + smConfig.spacing)
CellOf(i) == calculateCellLayout(grid, i, smConfig)

\* The rectangles of two cells have no point in common
CellsApart(a, b) ==
    \/ a.x + grid.cellWidth <= b.x
    \/ b.x + grid.cellWidth <= a.x
    \/ a.y + grid.cellHeight <= b.y
    \/ b.y + grid.cellHeight <= a.y

\* C30: for groupCount >= 1, spacing >= 0 and a viewport large enough that
\* cellWidth > 0 and cellHeight > 0: rows * cols >= groupCount and
\* (rows - 1) * cols < groupCount; every cell index below groupCount lies
\* in a row below rows and a column below cols, two indices never in the
\* same (row, col), and the rectangles of two cells do not overlap.
C30_RowMajorGrid ==
    (CellLaidOut /\ groupCount >= 1 /\ smConfig.spacing >= 0
       /\ grid.cellWidth > 0 /\ grid.cellHeight > 0) =>
        /\ grid.rows * grid.cols >= groupCount
        /\ (grid.rows - 1) * grid.cols < groupCount
        /\ RowAt(cell) \in 0..(grid.rows - 1)
        /\ ColumnAt(cell) \in 0..(grid.cols - 1)
        /\ \A j \in 0..(groupCount - 1) :
              j # cellIndex =>
                  /\ <<RowAt(CellOf(j)), ColumnAt(CellOf(j))>>
                         # <<RowAt(cell), ColumnAt(cell)>>
                  /\ CellsApart(CellOf(j), cell)

\* Five groups in a grid of two columns and three rows without spacing:
\* the last cell stands alone in the third row, flush with its neighbour.
C30_Witness ==
    /\ CellLaidOut
    /\ groupCount = 5
    /\ grid.cols = 2
    /\ grid.rows = 3
    /\ smConfig.spacing = 0
    /\ grid.cellWidth > 0
    /\ grid.cellHeight > 0
    /\ cellIndex = 4
    /\ RowAt(cell) = 2
    /\ ColumnAt(cell) = 0
    /\ CellOf(2).y + grid.cellHeight = cell.y
    /\ CellOf(3).x = CellOf(2).x + grid.cellWidth

----------------------------------------------------------------------------
(* Specification of the variance model: a data view is drawn and parsed;   *)
(* the parsed data goes through applyTopN, as in Visual.update, and the    *)
(* variance of a data point is displayed by the renderers and the tooltip. *)

\* The raw rows the data views are made of: positive, negative, zero and
\* null values, a zero and a negative comparison base, variances of both
\* signs, null, empty and non-empty comments, repeated names and actuals.
RawRows ==
    {[category |-> "A", actual |-> {100}, budget |-> {90}, previousYear |-> {80},
      forecast |-> {110}, comments |-> {"Late"}],
     [category |-> "B", actual |-> {50}, budget |-> {0}, previousYear |-> {-40},
      forecast |-> Null, comments |-> {""}],
     [category |-> "C", actual |-> {-30}, budget |-> {-20}, previousYear |-> Null,
      forecast |-> {-30}, comments |-> Null],
     [category |-> "A", actual |-> Null, budget |-> {70}, previousYear |-> {-80},
      forecast |-> {0}, comments |-> {""}],
     [category |-> "D", actual |-> {100}, budget |-> {120}, previousYear |-> {100},
      forecast |-> {90}, comments |-> {"Note"}]}

MeasureColumns == {"actual", "budget", "previousYear", "forecast", "comments"}

\* The data view of the given rows in which the given columns are bound
MkDataView(rows, bound) ==
    [col \in {"category"} \cup MeasureColumns |->
        IF col = "category" \/ col \in bound
        THEN [k \in 1..Len(rows) |-> rows[k][col]]
        ELSE <<>>]

DataViews ==
    {MkDataView(rows, bound) :
        rows \in UNION {[1..n -> RawRows] : n \in 0..MaxRows},
        bound \in SUBSET MeasureColumns}

\* The options that differ in a field applyTopN reads
TopNOptionsSet ==
    {o \in [enable : Booleans,
            count : {-1, 0, 1, 2},
            sortBy : {"value", "name", "variance"},
            sortDirection : {"asc", "desc"},
            showOthers : Booleans,
            othersLabel : {"Others"},
            comparisonType : ComparisonTypes] :
        /\ o.sortBy # "variance" => o.comparisonType = "budget"
        /\ ~o.enable => /\ o.sortBy = "value"
                        /\ o.sortDirection = "desc"
                        /\ o.showOthers}

SettingsSet == [invertVariance : Booleans, comparisonType : ComparisonTypes]

InitData ==
    /\ pc = "input"
    /\ dataView \in DataViews
    /\ parsedData = NoParsedData
    /\ topNOptions = NoTopNOptions
    /\ topNData = NoTopNData
    /\ settings = NoSettings
    /\ pointIndex = 0
    /\ shown = NoShown
    /\ LayoutIdle
    /\ GridIdle
    /\ VisualIdle

ParseDataView ==
    /\ pc = "input"
    /\ parsedData' = parseDataView(dataView)
    /\ pc' = "parsed"
    /\ UNCHANGED <<dataView, topNOptions, topNData, settings, pointIndex, shown>>
    /\ UNCHANGED layoutVars
    /\ UNCHANGED gridVars
    /\ UNCHANGED visualVars

ApplyTopN ==
    /\ pc = "parsed"
    /\ \E data \in parsedData, options \in TopNOptionsSet :
          /\ topNOptions' = options
          /\ topNData' = applyTopN(data, options)
    /\ pc' = "topN"
    /\ UNCHANGED <<dataView, parsedData, settings, pointIndex, shown>>
    /\ UNCHANGED layoutVars
    /\ UNCHANGED gridVars
    /\ UNCHANGED visualVars

\* A data point is drawn by a chart, listed in the outer comment box and
\* hovered: what each of them displays as its variance
DisplayVariance ==
    /\ pc = "parsed"
    /\ \E data \in parsedData, st \in SettingsSet :
          \E k \in DOMAIN data.dataPoints :
             LET d == data.dataPoints[k]
             IN  /\ settings' = st
                 /\ pointIndex' = k - 1
                 /\ shown' = [chart |-> [variance |-> getVarianceForPoint(d, st),
                                         pct |-> getVariancePctForPoint(d, st)],
                              outerCard |-> outerCommentCard(d, st),
                              tooltip |-> buildTooltipForDataPoint(d, data)]
    /\ pc' = "shown"
    /\ UNCHANGED <<dataView, parsedData, topNOptions, topNData>>
    /\ UNCHANGED layoutVars
    /\ UNCHANGED gridVars
    /\ UNCHANGED visualVars

NextData == ParseDataView \/ ApplyTopN \/ DisplayVariance

SpecData == InitData /\ [][NextData]_vars

----------------------------------------------------------------------------
(* Properties of the variance model, checked under SpecData *)

Parsed == pc = "parsed" /\ parsedData # {}
TopNApplied == pc = "topN"
VarianceShown == pc = "shown"
ParsedPoints == (CHOOSE data \in parsedData : TRUE).dataPoints
ParsedFlags == CHOOSE data \in parsedData : TRUE

\* The data points in the state: those parsed and, after applyTopN, those
\* it returned
PointsInState ==
    IF parsedData = {} THEN {}
    ELSE {ParsedPoints[k] : k \in DOMAIN ParsedPoints}
         \cup {topNData.dataPoints[k] : k \in DOMAIN topNData.dataPoints}

\* applyTopN appended an Others row (no raw category has the Others label)
OthersAppended ==
    /\ TopNApplied
    /\ topNData.dataPoints # <<>>
    /\ topNData.dataPoints[Len(topNData.dataPoints)].category = topNOptions.othersLabel
OthersRow == topNData.dataPoints[Len(topNData.dataPoints)]
KeptPoints == SubSeq(topNData.dataPoints, 1, Len(topNData.dataPoints) - 1)

VariancesDerived(d) ==
    /\ d.varianceToBudget = d.actual - d.budget
    /\ d.varianceToPY = d.actual - d.previousYear
    /\ d.varianceToFC = d.actual - d.forecast

MissingColumnsCountZero(d, data) ==
    /\ ~data.hasBudget => d.budget = 0 /\ d.varianceToBudget = d.actual
    /\ ~data.hasPreviousYear => d.previousYear = 0 /\ d.varianceToPY = d.actual
    /\ ~data.hasForecast => d.forecast = 0 /\ d.varianceToFC = d.actual

\* C15: every DataPoint returned by parseDataView, and the Others row
\* appended by applyTopN, has varianceToBudget = actual - budget,
\* varianceToPY = actual - previousYear and varianceToFC = actual - forecast,
\* a missing comparison column counting as 0; the actual and comparison
\* values of the Others row are the sums over the rows that were not kept.
C15_VariancesDerived ==
    /\ \A d \in PointsInState :
          VariancesDerived(d) /\ MissingColumnsCountZero(d, ParsedFlags)
    /\ OthersAppended =>
          \A f \in {"actual", "budget", "previousYear", "forecast"} :
             OthersRow[f] = SumOf(ParsedPoints, f) - SumOf(KeptPoints, f)

\* An Others row that sums two rows, with a variance that is not zero,
\* in data without a forecast column.
C15_Witness ==
    /\ OthersAppended
    /\ Len(ParsedPoints) = 3
    /\ Len(KeptPoints) = 1
    /\ ParsedFlags.hasBudget
    /\ ~ParsedFlags.hasForecast
    /\ OthersRow.budget # 0
    /\ OthersRow.varianceToBudget < 0
    /\ OthersRow.varianceToFC = OthersRow.actual
    /\ OthersRow.actual # 0

PercentageOf(variance, base, pct) ==
    /\ pct.den > 0
    /\ base = 0 => pct.num = 0
    /\ base # 0 => /\ pct.num * Abs(base) = variance * 100 * pct.den
                   /\ Sign(pct.num) = Sign(variance)

\* C16: the variance percentage is 0 whenever the base is 0; for every
\* other base it equals variance / |base| * 100, so that its sign is the
\* sign of the variance, also when the base is negative.
C16_Percentage ==
    \A d \in PointsInState :
        /\ PercentageOf(d.varianceToBudget, d.budget, d.varianceToBudgetPct)
        /\ PercentageOf(d.varianceToPY, d.previousYear, d.varianceToPYPct)
        /\ PercentageOf(d.varianceToFC, d.forecast, d.varianceToFCPct)

\* One data point with a zero budget and a variance that is not zero, and
\* one with a negative base under a positive and under a negative variance.
C16_Witness ==
    /\ Parsed
    /\ \E d \in PointsInState :
          d.budget = 0 /\ d.varianceToBudget # 0 /\ d.varianceToBudgetPct.num = 0
    /\ \E d \in PointsInState :
          d.previousYear < 0 /\ d.varianceToPY > 0 /\ d.varianceToPYPct.num > 0
    /\ \E d \in PointsInState :
          d.budget < 0 /\ d.varianceToBudget < 0 /\ d.varianceToBudgetPct.num < 0

ShownPoint == ParsedPoints[pointIndex + 1]
StoredVarianceOf(item) ==
    IF item.displayName = "Variance to Budget"
    THEN [variance |-> ShownPoint.varianceToBudget, pct |-> ShownPoint.varianceToBudgetPct]
    ELSE [variance |-> ShownPoint.varianceToPY, pct |-> ShownPoint.varianceToPYPct]
NegationOf(value, stored) ==
    /\ value.variance = -stored.variance
    /\ SameRational(value.pct, Negated(stored.pct))

\* C17: when the invert-variance flag is set, the chart (bars, labels,
\* waterfall steps, comment cards), the outer comment box of the small
\* multiples and the tooltip items all display the negated variance and
\* variance percentage, and the stored fields of the data points stay as
\* parseDataView computed them.
C17_InvertedEverywhere ==
    (VarianceShown /\ settings.invertVariance) =>
        LET stored == [variance |-> getVariance(ShownPoint, settings.comparisonType),
                       pct |-> getVariancePct(ShownPoint, settings.comparisonType)]
        IN  /\ NegationOf(shown.chart, stored)
            /\ NegationOf(shown.outerCard, stored)
            /\ \A k \in DOMAIN shown.tooltip :
                  NegationOf(shown.tooltip[k], StoredVarianceOf(shown.tooltip[k]))
            /\ parsedData = parseDataView(dataView)

\* C18: ParsedData.hasComments is true exactly when at least one data row
\* has a non-empty comment; a bound comment column whose values are all
\* empty or null gives hasComments = false.
C18_HasCommentsIffCommented ==
    Parsed =>
        (ParsedFlags.hasComments <=>
            \E k \in DOMAIN ParsedPoints : ParsedPoints[k].comment # "")

ValueFields == {"actual", "budget", "previousYear", "forecast"}
KeptIndices == {KeptPoints[k].index : k \in DOMAIN KeptPoints}
IsNotKept(d) == d.index \notin KeptIndices
NotKeptPoints == SelectSeq(ParsedPoints, IsNotKept)

\* C21: when applyTopN appends an Others row, its actual, budget,
\* previousYear and forecast are the sums over exactly the data points that
\* were not kept, so each of the four sums over the returned data points
\* equals the sum over the input data points.
C21_OthersConservesSums ==
    OthersAppended =>
        /\ \A k \in DOMAIN KeptPoints :
              KeptPoints[k] = ParsedPoints[KeptPoints[k].index + 1]
        /\ Cardinality(KeptIndices) = Len(KeptPoints)
        /\ \A f \in ValueFields :
              /\ OthersRow[f] = SumOf(NotKeptPoints, f)
              /\ SumOf(topNData.dataPoints, f) = SumOf(ParsedPoints, f)

\* Three rows sorted by variance, one kept: the Others row adds up the two
\* others, whose actuals and budgets are not zero.
C21_Witness ==
    /\ OthersAppended
    /\ topNOptions.sortBy = "variance"
    /\ Len(ParsedPoints) = 3
    /\ Len(KeptPoints) = 1
    /\ Len(NotKeptPoints) = 2
    /\ \A k \in DOMAIN NotKeptPoints :
          NotKeptPoints[k].actual # 0 /\ NotKeptPoints[k].budget # 0
    /\ OthersRow.actual = NotKeptPoints[1].actual + NotKeptPoints[2].actual
    /\ OthersRow.actual # SumOf(ParsedPoints, "actual")

\* The requested sort order, as the settings name it: by name, variance or
\* actual, ascending or descending; rows that tie keep their input order.
SortKey(d) ==
    CASE topNOptions.sortBy = "name" -> LocaleRank(d.category)
      [] topNOptions.sortBy = "variance" -> getVariance(d, topNOptions.comparisonType)
      [] OTHER -> d.actual
ComesBefore(a, b) ==
    \/ topNOptions.sortDirection = "asc" /\ SortKey(a) < SortKey(b)
    \/ topNOptions.sortDirection # "asc" /\ SortKey(a) > SortKey(b)
    \/ SortKey(a) = SortKey(b) /\ a.index < b.index

TopNCuts == topNOptions.enable /\ Len(ParsedPoints) > topNOptions.count
\* The data points returned in front of the Others row, if there is one
FirstPoints == IF OthersAppended THEN KeptPoints ELSE topNData.dataPoints
FirstIndices == {FirstPoints[k].index : k \in DOMAIN FirstPoints}

\* first is the first k data points of the input in the requested order
IsFirstOfOrder(first, k) ==
    /\ Len(first) = k
    /\ \A i \in DOMAIN first : first[i] = ParsedPoints[first[i].index + 1]
    /\ \A i \in 1..(Len(first) - 1) : ComesBefore(first[i], first[i + 1])
    /\ \A i \in DOMAIN first : \A j \in DOMAIN ParsedPoints :
          (ParsedPoints[j].index \notin FirstIndices) =>
              ComesBefore(first[i], ParsedPoints[j])

\* What follows the first k points: one Others row, or nothing
OthersRowFollows(k) ==
    IF topNOptions.showOthers
    THEN /\ Len(topNData.dataPoints) = k + 1
         /\ OthersAppended
    ELSE Len(topNData.dataPoints) = k

\* C22 as stated: applyTopN returns the input unchanged when Top N is
\* disabled or there are at most count data points; otherwise exactly the
\* first count data points of the requested sort order, followed by
\* exactly one Others row when showOthers is true and by nothing when it
\* is false; the input's dataPoints are not reordered or modified.
C22_FirstCountPoints ==
    TopNApplied =>
        /\ ~TopNCuts => topNData = ParsedFlags
        /\ TopNCuts => /\ IsFirstOfOrder(FirstPoints, topNOptions.count)
                       /\ OthersRowFollows(topNOptions.count)
        /\ parsedData = parseDataView(dataView)

\* The number of data points slice(0, count) keeps of n
KeptCount(n, count) == IF count < 0 THEN Max(n + count, 0) ELSE count

\* C22, amended: the number of points kept is count for count >= 0 and
\* length + count (at least 0) for a negative count.
C22_FirstKeptPoints ==
    TopNApplied =>
        /\ ~TopNCuts => topNData = ParsedFlags
        /\ TopNCuts =>
              LET k == KeptCount(Len(ParsedPoints), topNOptions.count)
              IN  /\ IsFirstOfOrder(FirstPoints, k)
                  /\ OthersRowFollows(k)
        /\ parsedData = parseDataView(dataView)

\* Three rows, two of them with the same actual, sorted by value
\* descending: the two kept are the tied ones in input order, the Others
\* row follows.
C22_Witness ==
    /\ TopNApplied
    /\ TopNCuts
    /\ topNOptions.count = 2
    /\ topNOptions.sortBy = "value"
    /\ topNOptions.sortDirection = "desc"
    /\ topNOptions.showOthers
    /\ Len(ParsedPoints) = 3
    /\ Len(topNData.dataPoints) = 3
    /\ FirstPoints[1].actual = FirstPoints[2].actual
    /\ FirstPoints[1].index < FirstPoints[2].index
    /\ FirstPoints[1].index # 0
    /\ OthersRow.actual < FirstPoints[2].actual

----------------------------------------------------------------------------
(* Specification of the update cycle: a visual is constructed and updated  *)
(* again and again with a viewport and, with or without, a data view. The  *)
(* format pane settings come with the data view. Bookmarks (jsonFilters),  *)
(* telemetry, the horizontal orientation and the drilled-down state are    *)
(* not drawn.                                                              *)

SalesRow(name) == CHOOSE r \in RawRows : r.category = name /\ r.actual # Null
SalesRows == <<SalesRow("A"), SalesRow("B"), SalesRow("D")>>
Regions == <<"North", "South", "North">>

\* small, medium and large under the responsive breakpoints
Viewports == {[width |-> 100, height |-> 100],
              [width |-> 300, height |-> 400],
              [width |-> 800, height |-> 600]}

BaseSettings ==
    [title |-> [show |-> TRUE, text |-> "Sales"],
     legend |-> [show |-> TRUE, position |-> "right"],
     commentBox |-> [show |-> TRUE],
     rotation |-> "-45",
     responsive |-> TRUE,
     chartType |-> "variance",
     comparisonType |-> "budget",
     topN |-> [enable |-> FALSE, count |-> 2, sortBy |-> "value",
               sortDirection |-> "desc", showOthers |-> TRUE],
     enableSelection |-> TRUE,
     crossFilterMode |-> "filter"]

VisualDataView(rows, bound, group, fs) ==
    [columns |-> MkDataView(rows, bound), group |-> group, settings |-> fs]

WithDataView(dv, v) == [dataView |-> {dv}, width |-> v.width, height |-> v.height]

\* The settings that differ in the peripherals shown or in the rotation
LayoutSettings ==
    {[BaseSettings EXCEPT !.title.show = t, !.legend.show = l, !.commentBox.show = c] :
        t \in Booleans, l \in Booleans, c \in Booleans}
    \cup
    {[BaseSettings EXCEPT !.rotation = rot] : rot \in RotationItems}
    \cup
    {[BaseSettings EXCEPT !.responsive = FALSE]}

UpdateOptionsSet ==
    {[dataView |-> {}, width |-> v.width, height |-> v.height] : v \in Viewports}
    \cup
    {WithDataView(VisualDataView(SalesRows, {"actual", "budget", "comments"}, group, fs), v) :
        group \in {<<>>, Regions}, fs \in LayoutSettings, v \in Viewports}
    \cup
    {WithDataView(VisualDataView(SalesRows, bound, <<>>,
                                 [BaseSettings EXCEPT !.chartType = chartType]), v) :
        bound \in {{"budget"}, {"actual"}}, chartType \in {"variance", "column"},
        v \in {w \in Viewports : w.width = 800}}

InitVisual ==
    /\ pc = "constructed"
    /\ visual \in {Constructed(p) : p \in Palettes}
    /\ powerbi = NoHost
    /\ lastUpdate = NoTrace
    /\ updateOptions = NoOptions
    /\ event = NoEvent
    /\ LayoutIdle
    /\ GridIdle
    /\ DataIdle

\* Visual.update with the given options
Update(o) ==
    \E result \in {update(visual, o)} :
        /\ pc' = "updated"
        /\ visual' = result.visual
        /\ powerbi' = [powerbi EXCEPT !.signals = result.signals,
                                      !.thrown = result.thrown]
        /\ lastUpdate' = result.trace
        /\ updateOptions' = o
        /\ event' = NoEvent
        /\ UNCHANGED layoutVars
        /\ UNCHANGED gridVars
        /\ UNCHANGED dataVars

UpdateVisual == \E o \in UpdateOptionsSet : Update(o)

NextVisual == UpdateVisual

SpecVisual == InitVisual /\ [][NextVisual]_vars

----------------------------------------------------------------------------
(* Claims about the update cycle (SpecVisual) *)

Updated == pc = "updated"
DrawnPath(path) == Updated /\ lastUpdate.path = path
ChosenSettings == (CHOOSE dv \in updateOptions.dataView : TRUE).settings

\* C23: every update first removes the children of the chart container and
\* resets its transform, so after any sequence of updates the container
\* holds what the last update alone draws (the same update on a visual just
\* constructed leaves the same container), and no transform is on the
\* container after a small multiples, landing page or no-data render.
C23_OnlyLastUpdateDrawn ==
    Updated =>
        /\ visual.chartContainer =
               update(Constructed(visual.palette), updateOptions).visual.chartContainer
        /\ lastUpdate.path \in {"multiples", "landing", "noData"} =>
               visual.chartContainer.transform = {}

\* C23 witness: small multiples drawn into a container that carried the
\* transform of a single chart when the update began.
C23_Witness ==
    /\ DrawnPath("multiples")
    /\ lastUpdate.enteredTranslated
    /\ visual.chartContainer.transform = {}
    /\ visual.chartContainer.children # <<>>

\* C27: every call of update signals renderingStarted once and after it
\* exactly one of renderingFinished and renderingFailed: renderingFailed
\* when the error is rethrown, renderingFinished on every other path (no
\* data view or unparsable data, no comparison data, single chart, small
\* multiples).
C27_StartedThenFinishedOrFailed ==
    Updated =>
        /\ Len(powerbi.signals) = 2
        /\ powerbi.signals[1] = "renderingStarted"
        /\ powerbi.signals[2] =
               IF powerbi.thrown THEN "renderingFailed" ELSE "renderingFinished"
        /\ powerbi.thrown <=> lastUpdate.path = "thrown"
        /\ lastUpdate.path \in {"landing", "noData", "single", "multiples", "thrown"}

\* C27 witness: a high contrast palette without colours makes update throw
\* after the data was parsed.
C27_Witness ==
    /\ DrawnPath("thrown")
    /\ visual.parsedData # {}
    /\ powerbi.thrown
    /\ powerbi.signals = <<"renderingStarted", "renderingFailed">>

\* C28: in the single chart path the title, legend and comment box show
\* flags given to the layout engine are the flags the chart renders with,
\* at every breakpoint; at the medium breakpoint the layout has no legend
\* and no comment box area.
C28_SpaceOnlyForDrawnPeripherals ==
    DrawnPath("single") =>
        /\ lastUpdate.layoutConfig.title.show = lastUpdate.chartSettings.title.show
        /\ lastUpdate.layoutConfig.legend.show = lastUpdate.chartSettings.legend.show
        /\ lastUpdate.layoutConfig.commentBox.show = lastUpdate.chartSettings.commentBox.show
        /\ lastUpdate.breakpoint = "medium" =>
               /\ lastUpdate.dimensions.layout.legendArea = NoArea
               /\ lastUpdate.dimensions.layout.commentBoxArea = NoArea

\* C29: at a breakpoint other than "small" the category rotation handed to
\* the layout engine, to the chart settings and to the small multiples cell
\* layout is the rotation chosen in the format pane, for each offered value.
C29_RotationAsChosen ==
    (Updated /\ lastUpdate.path \in {"single", "multiples"}
       /\ lastUpdate.breakpoint # "small") =>
        /\ lastUpdate.layoutConfig.categories.rotation = ParseInt(ChosenSettings.rotation)
        /\ lastUpdate.chartSettings.categories.rotation = ParseInt(ChosenSettings.rotation)
        /\ lastUpdate.path = "multiples" =>
               lastUpdate.smConfig.categoryRotation = ParseInt(ChosenSettings.rotation)

----------------------------------------------------------------------------
(* Specification of the click handlers: a visual is updated with a chart   *)
(* in a large viewport, and its tagged elements and its empty space are    *)
(* clicked, with or without Ctrl. The rect of the forecast hatch pattern   *)
(* is tagged but not displayed; it is never the target of a click.         *)

LargeViewport == CHOOSE v \in Viewports : v.width = 800

ChartSettingsSet ==
    {[BaseSettings EXCEPT !.chartType = chartType] : chartType \in {"variance", "column"}}

TopNSettingsSet ==
    {[BaseSettings EXCEPT !.chartType = chartType,
                          !.topN.enable = TRUE,
                          !.topN.showOthers = showOthers] :
        chartType \in {"variance", "column"}, showOthers \in Booleans}

ChartOptionsSet ==
    {[dataView |-> {}, width |-> LargeViewport.width, height |-> LargeViewport.height]}
    \cup
    {WithDataView(VisualDataView(SubSeq(SalesRows, 1, 2), {"actual", "budget"}, <<>>, fs),
                  LargeViewport) :
        fs \in ChartSettingsSet
               \cup {[BaseSettings EXCEPT !.crossFilterMode = "highlight"],
                     [BaseSettings EXCEPT !.enableSelection = FALSE]}}
    \cup
    {WithDataView(VisualDataView(SalesRows, {"actual"}, <<>>, fs), LargeViewport) :
        fs \in ChartSettingsSet}
    \cup
    {WithDataView(VisualDataView(SalesRows,
                                 {"actual", "budget", "previousYear", "comments"},
                                 <<>>, fs),
                  LargeViewport) :
        fs \in ChartSettingsSet \cup TopNSettingsSet
               \cup {[BaseSettings EXCEPT !.comparisonType = "previousYear"]}}

InitClicks ==
    /\ pc = "constructed"
    /\ visual = Constructed(NormalPalette)
    /\ powerbi = NoHost
    /\ lastUpdate = NoTrace
    /\ updateOptions = NoOptions
    /\ event = NoEvent
    /\ LayoutIdle
    /\ GridIdle
    /\ DataIdle

UpdateChart == \E o \in ChartOptionsSet : Update(o)

\* A click on a tagged element of the chart, with or without Ctrl
ClickElement ==
    /\ pc \in {"updated", "clicked"}
    /\ visual.elementClick # {}
    /\ \E k \in DOMAIN visual.chartContainer.children, isMultiSelect \in Booleans :
          /\ visual.chartContainer.children[k].index # -1
          /\ visual.chartContainer.children[k].role # "forecast-hatch"
          /\ \E result \in {clickElement(visual, powerbi,
                                         visual.chartContainer.children[k],
                                         isMultiSelect)} :
                /\ visual' = result.visual
                /\ powerbi' = result.host
          /\ event' = [kind |-> "click", element |-> k, multiSelect |-> isMultiSelect]
    /\ pc' = "clicked"
    /\ UNCHANGED <<lastUpdate, updateOptions>>
    /\ UNCHANGED layoutVars
    /\ UNCHANGED gridVars
    /\ UNCHANGED dataVars

\* A click on the svg or on an element without data-index
ClickEmptySpace ==
    /\ pc \in {"updated", "clicked"}
    /\ visual.svgClick # {}
    /\ \E result \in {clickEmptySpace(visual, powerbi)} :
          /\ visual' = result.visual
          /\ powerbi' = result.host
    /\ event' = [kind |-> "clickEmpty", element |-> 0, multiSelect |-> FALSE]
    /\ pc' = "clicked"
    /\ UNCHANGED <<lastUpdate, updateOptions>>
    /\ UNCHANGED layoutVars
    /\ UNCHANGED gridVars
    /\ UNCHANGED dataVars

NextClicks == UpdateChart \/ ClickElement \/ ClickEmptySpace

SpecClicks == InitClicks /\ [][NextClicks]_vars

----------------------------------------------------------------------------
(* Claims about the click handlers (SpecClicks) *)

\* A single chart is drawn with selection enabled
SelectableChart ==
    /\ lastUpdate.path = "single"
    /\ ChosenSettings.enableSelection

ClickedElement == visual.chartContainer.children[event.element]
DrawnPoints == (CHOOSE d \in visual.parsedData : TRUE).dataPoints

\* The last click was on a bar of the chart
BarClicked ==
    /\ pc = "clicked"
    /\ event.kind = "click"
    /\ SelectableChart
    /\ ClickedElement.dp # -1

\* C26: with selection enabled in a single chart, a click on a bar selects
\* the selection id, and cross-filters on the category, of the data point
\* the bar was drawn for: data-index mod the number of data points is the
\* bar's data-dp-index, and the selection id at that index has the
\* category of that data point, also after Top N.
C26_ClickSelectsOwnPoint ==
    BarClicked =>
        /\ ClickedElement.index % Len(DrawnPoints) = ClickedElement.dp
        /\ ClickedElement.dp + 1 \in DOMAIN visual.selectionIds
        /\ visual.selectionIds[ClickedElement.dp + 1].category
               = DrawnPoints[ClickedElement.dp + 1].category
        /\ \E s \in powerbi.selected :
               s.id.category = DrawnPoints[ClickedElement.dp + 1].category
        /\ ChosenSettings.crossFilterMode = "filter" =>
               DrawnPoints[ClickedElement.dp + 1].category \in visual.crossFilterValues

\* The category of the data point the element clicked in the next state
\* was drawn for
ClickedCategory ==
    DrawnPoints[visual.chartContainer.children[event'.element].dp + 1].category

\* C24: in cross-filter mode "filter" a plain click on a data point makes
\* the set of cross-filter values that point's category alone, a Ctrl-click
\* adds the point's category and keeps the others, a click on empty space
\* empties the set, and every "In" filter handed to the host lists the set
\* as it is then.
C24_FilterFollowsClicks ==
    [][(/\ SelectableChart
        /\ ChosenSettings.crossFilterMode = "filter"
        /\ pc' = "clicked")
       =>
       /\ (event'.kind = "click"
             /\ visual.chartContainer.children[event'.element].dp # -1) =>
              /\ ClickedCategory \in visual'.crossFilterValues
              /\ visual'.crossFilterValues =
                     (IF event'.multiSelect THEN visual.crossFilterValues ELSE {})
                     \cup {ClickedCategory}
       /\ event'.kind = "clickEmpty" => visual'.crossFilterValues = {}
       /\ powerbi'.filter.operator = "In" =>
              powerbi'.filter.values = visual'.crossFilterValues]_vars

=============================================================================
